---- MODULE Spec2Model ----
(***************************************************************************)
(* Latent Loop: the incremental document-update pipeline.                  *)
(*                                                                         *)
(* Part I   - text helpers (headings, trimming, fuzzy header matching).    *)
(* Part II  - the Client Replay Queue of one subscriber, in both copies of *)
(*            the front end: the React hook (frontend/hooks/               *)
(*            useLatentLoop.ts) and the vanilla script (version2/static/   *)
(*            js/api.js with backend/static/js/rendering.js).  The         *)
(*            variable impl says which copy the subscriber runs.           *)
(* Part III - the back end (Match Classifier, Pending-Decision Store,      *)
(*            Document Rewriter, event log).                               *)
(***************************************************************************)
EXTENDS Integers, Sequences, FiniteSets, TLC

\* JavaScript null / undefined / a missing field: a value no string equals.
NULL == <<"null">>

(***************************************************************************)
(* Part I: text                                                            *)
(*                                                                         *)
(* A string is a sequence of one-character strings.  A document is a       *)
(* sequence of lines; a line [lvl, text] with lvl in 1..6 is a heading     *)
(* line of lvl '#' characters followed by white space and text, lvl = 0 is *)
(* any other line.                                                         *)
(***************************************************************************)

\* String.prototype.toLowerCase on the alphabet the model uses.
LowerChar(c) ==
    CASE c = "A" -> "a"
      [] c = "B" -> "b"
      [] c = "Z" -> "z"
      [] OTHER   -> c

toLowerCase(s) == [i \in 1..Len(s) |-> LowerChar(s[i])]

IsSpace(c) == c = " "

RECURSIVE trimStart(_)
trimStart(s) ==
    IF s # <<>> /\ IsSpace(Head(s)) THEN trimStart(Tail(s)) ELSE s

RECURSIVE trimEnd(_)
trimEnd(s) ==
    IF s # <<>> /\ IsSpace(s[Len(s)]) THEN trimEnd(SubSeq(s, 1, Len(s) - 1)) ELSE s

\* String.prototype.trim
trim(s) == trimEnd(trimStart(s))

startsWith(s, p) == Len(p) <= Len(s) /\ SubSeq(s, 1, Len(p)) = p

\* s.indexOf(p) !== -1, s.includes(p)
includes(s, p) ==
    \E i \in 0..(Len(s) - Len(p)) : SubSeq(s, i + 1, i + Len(p)) = p

\* A value JavaScript treats as false in `!x` / `x || y`: null, undefined, ''.
Falsy(v) == v = NULL \/ v = <<>>

NoneStr == <<"N", "o", "n", "e">>

\* The same test on a document's text: only '' is false.
EmptyText(doc) == doc = <<>>

H(lvl, text) == [lvl |-> lvl, text |-> text]
P(text) == [lvl |-> 0, text |-> text]

\* The captures of /^#{1,3}\s+(.+)$/gm, each trimmed, in document order.
RECURSIVE Headers(_)
Headers(doc) ==
    IF doc = <<>> THEN <<>>
    ELSE IF Head(doc).lvl \in 1..3
         THEN <<trim(Head(doc).text)>> \o Headers(Tail(doc))
         ELSE Headers(Tail(doc))

InSeq(e, s) == \E i \in 1..Len(s) : s[i] = e

LastNotIn(new, old) ==
    LET fresh == {i \in 1..Len(new) : ~InSeq(new[i], old)}
    IN  IF fresh = {} THEN NULL
        ELSE new[CHOOSE i \in fresh : \A j \in fresh : j <= i]

RECURSIVE FirstNotIn(_, _)
FirstNotIn(new, old) ==
    IF new = <<>> THEN NULL
    ELSE IF ~InSeq(Head(new), old) THEN Head(new)
    ELSE FirstNotIn(Tail(new), old)

\* detectNewSection(oldContent, newContent)
detectNewSection(oldContent, newContent) ==
    FirstNotIn(Headers(newContent), Headers(oldContent))

\* The text content of the h1, h2, h3 elements marked renders, in document
\* order (querySelectorAll('h1, h2, h3')).
RenderedHeaders(doc) == Headers(doc)

\* The score findHeaderElement gives one rendered header.
MatchScore(text, search) ==
    IF text = search THEN 100
    ELSE IF startsWith(text, search) \/ startsWith(search, text) THEN 50
    ELSE IF includes(text, search) \/ includes(search, text) THEN 10
    ELSE 0

\* The same loop keeping the last of the headers that score highest.
RECURSIVE LastBestHeader(_, _, _, _)
LastBestHeader(hs, search, i, best) ==
    IF i > Len(hs) THEN best
    ELSE LET score == MatchScore(trim(toLowerCase(hs[i])), search)
         IN  LastBestHeader(hs, search, i + 1,
                            IF score >= best.score
                            THEN [score |-> score, at |-> i] ELSE best)

\* The forEach of findHeaderElement from header i on: best = [score, at].
RECURSIVE BestHeader(_, _, _, _)
BestHeader(hs, search, i, best) ==
    IF i > Len(hs) THEN best
    ELSE LET score == MatchScore(trim(toLowerCase(hs[i])), search)
         IN  BestHeader(hs, search, i + 1,
                        IF score > best.score
                        THEN [score |-> score, at |-> i] ELSE best)

\* findHeaderElement(sectionName) on the rendered document: the position of
\* the header found among the rendered headers, 0 for null.
findHeaderElement(sectionName, doc) ==
    IF Falsy(sectionName) THEN 0
    ELSE LET best == BestHeader(RenderedHeaders(doc),
                                trim(toLowerCase(sectionName)), 1,
                                [score |-> -1, at |-> 0])
         IN  IF best.score > 0 THEN best.at ELSE 0

(***************************************************************************)
(* Bounds and input sets                                                   *)
(***************************************************************************)

\* file_updated events one subscriber receives in a run.
MaxEvents == 3

\* init snapshots and REST state loads one subscriber applies in a run.
MaxSnapshots == 1

Impls == {"react", "vanilla"}

ab == <<"a", "b">>
b == <<"b">>
z == <<"z">>
x == <<"x">>
y == <<"y">>

DocA == <<H(1, ab), P(x)>>
DocAB == <<H(1, ab), P(y), H(2, b)>>

\* Document bodies carried by events and snapshots.
Docs == {DocA, DocAB}

\* Values of a file_updated event's `section` field.
SectionInputs == {NULL, <<>>, NoneStr, ab, z}

\* Values of a file_updated event's `change_info.target_section` field.
TargetInputs == {NULL, b}

(***************************************************************************)
(* Part II: the subscriber                                                 *)
(***************************************************************************)

VARIABLES
    impl,               \* which copy of the front end this subscriber runs
    markdownContent,    \* the document on display (React state / global + DOM)
    displayedContent,   \* the "last displayed" baseline (displayedContentRef)
    updateQueue,        \* the replay queue (updateQueueRef)
    isProcessingQueue,  \* a drain is in progress (isProcessingRef)
    animatingSection,   \* React: the animatingSection state
    glowHeader,         \* vanilla: the rendered header carrying glow-green, 0 if none
    activeTimeouts,     \* the pending setTimeout callbacks of the queue
    handlerContent,     \* React: markdownContent as closed over by the live onmessage
    evtSource,          \* "none", or "open" once connectSSE has created the EventSource
    received,           \* history: bodies of the file_updated events received
    applied,            \* history: bodies put on display by drains, in order
    animations,         \* history: how many drains entered the animation
    lastShown,          \* history: what wrote markdownContent last
    lastGap,            \* history: the last finished drain scheduled a gap timer
    snapshots           \* history: init snapshots and state loads applied

clientVars ==
    <<impl, markdownContent, displayedContent, updateQueue, isProcessingQueue,
      animatingSection, glowHeader, activeTimeouts, handlerContent,
      evtSource, received, applied, animations, lastShown, lastGap, snapshots>>

\* The subscriber's pending list and its connection to the event channel.
VARIABLES
    pendingList,     \* the open PendingUpdates the subscriber lists (pendingUpdates)
    stream,          \* the messages queued for the subscriber's open EventSource
    handled,         \* history: the messages onmessage has handled, in order
    reconnectTimer,  \* the 3 s timer set by onerror is pending
    connections,     \* history: the EventSources created so far
    served,          \* what the back end serves: document and open pending ids
    missed           \* history: events committed while no stream was open

connVars == <<stream, handled, reconnectTimer, connections, served, missed>>

streamVars == <<pendingList, connVars>>

\* The chunks the subscriber has submitted, as its transcript shows them.
VARIABLES
    processingItems  \* one item per submitted chunk: kind, result, status shown

submitVars == <<processingItems>>

\* The file_updated event a single handleFileUpdated call is followed with.
VARIABLES
    heard            \* the event's fields and the baseline it is compared with

harnessVars == <<heard>>

\* The recorder of the subscriber (recording.js, useRecording.ts).
VARIABLES
    isRecording,       \* the isRecording flag
    micRequests,       \* getUserMedia calls startRecording is still awaiting
    audioStream,       \* a microphone stream is held (audioStream, audioStreamRef)
    mediaRecorder,     \* the current MediaRecorder: its place in sessions, 0 if null
    sessions,          \* the MediaRecorders created: state, bytes handed over
    chunkCounter,      \* the chunk number handed out last
    chunkInterval,     \* the handle kept of the chunk interval, 0 if null
    progressInterval,  \* the handle kept of the progress interval, 0 if null
    chunkTimers,       \* the chunk intervals set and not cleared, by handle
    progressTimers,    \* the progress intervals set and not cleared, by handle
    uploads,           \* the processChunkAsync calls: chunk, item id, reply
    processingCount,   \* React: the processingCount state
    processingChunks,  \* vanilla: the processingChunks set
    chunkItems,        \* the transcript items of the chunks, in order
    removals           \* React: the pending 3 s timers taking an item away

recordingVars ==
    <<isRecording, micRequests, audioStream, mediaRecorder, sessions,
      chunkCounter, chunkInterval, progressInterval, chunkTimers,
      progressTimers, uploads, processingCount, processingChunks, chunkItems,
      removals>>

\* The project selected and the EventSources opened for it.
VARIABLES
    projectName,    \* the project selected
    mounted,        \* React: the hook has not been torn down
    sources,        \* the EventSources created: project and readyState
    evtSourceRef,   \* the EventSource held (evtSourceRef, evtSource): place in sources, 0 if null
    reconnects,     \* the pending 3 s timers of onerror: the project of their connectSSE
    loads           \* the state loads awaited with a connect chained after them

projectVars ==
    <<projectName, mounted, sources, evtSourceRef, reconnects, loads>>

\* What the handlers of the event stream leave alone.
restVars == <<submitVars, harnessVars, recordingVars, projectVars>>

\* The state of the subscriber (Part II).
subscriberVars == <<clientVars, streamVars, restVars>>

\* The state of the back end (Part III).
VARIABLES
    document,        \* the project's current document
    pendingUpdates,  \* the Pending-Decision Store: the open PendingUpdates
    nextId,          \* the decision ids handed out so far
    chunkSeq,        \* the chunks submitted so far
    events,          \* the events emitted on the project's channel, in order
    failed,          \* chunks surfaced to their originator as errors
    decided,         \* history: the kind of the Decision made for each chunk
    classified,      \* the classifier's last input and output
    rewritten,       \* the rewriter's last input and output
    waiting,         \* classified chunks waiting for the rewriter
    cycles,          \* the rewrite cycles in flight: chunk, decision, document read
    rewriteLock,     \* the per-project rewrite lock: its holder's chunk, 0 when free
    lastResolve,     \* the reply to the last resolve call
    lastResolveId    \* history: the id the last resolve call named

serverVars ==
    <<document, pendingUpdates, nextId, chunkSeq, events, failed,
      decided, classified, rewritten, waiting, cycles, rewriteLock,
      lastResolve, lastResolveId>>

GLOW_DURATION == 500
GAP_DELAY == 100

\* `# ${projectName}\n`
DefaultDoc == <<H(1, z)>>

\* No event is being followed.
NotHeard == [set |-> FALSE]

\* Before the subscriber has connected or submitted anything.
AsideInit ==
    /\ pendingList = <<>>
    /\ stream = <<>>
    /\ handled = <<>>
    /\ reconnectTimer = FALSE
    /\ connections = 0
    /\ served = [content |-> DefaultDoc, pending |-> <<>>]
    /\ missed = {}
    /\ processingItems = <<>>
    /\ heard = NotHeard
    /\ isRecording = FALSE
    /\ micRequests = 0
    /\ audioStream = FALSE
    /\ mediaRecorder = 0
    /\ sessions = <<>>
    /\ chunkCounter = 0
    /\ chunkInterval = 0
    /\ progressInterval = 0
    /\ chunkTimers = {}
    /\ progressTimers = {}
    /\ uploads = <<>>
    /\ processingCount = 0
    /\ processingChunks = {}
    /\ chunkItems = <<>>
    /\ removals = <<>>
    /\ projectName = 1
    /\ mounted = TRUE
    /\ sources = <<>>
    /\ evtSourceRef = 0
    /\ reconnects = <<>>
    /\ loads = <<>>

ClientInit ==
    /\ impl \in Impls
    /\ markdownContent = <<>>
    /\ displayedContent = <<>>
    /\ updateQueue = <<>>
    /\ isProcessingQueue = FALSE
    /\ animatingSection = NULL
    /\ glowHeader = 0
    /\ activeTimeouts = <<>>
    /\ handlerContent = <<>>
    /\ evtSource = "none"
    /\ received = <<>>
    /\ applied = <<>>
    /\ animations = 0
    /\ lastShown = "none"
    /\ lastGap = FALSE
    /\ snapshots = 0
    /\ AsideInit

RemoveAt(s, i) == SubSeq(s, 1, i - 1) \o SubSeq(s, i + 1, Len(s))

CanProcessWhileBusy(q) == Len(q) > 0

\* The guard of processNextUpdate: its early return, negated.
CanProcess(q) == ~isProcessingQueue /\ Len(q) > 0

ShiftNewest(q) == q[Len(q)]

\* updateQueue.shift(): the item taken, and what stays queued.
ShiftItem(q) == Head(q)
ShiftRest(q) == Tail(q)

GapNeverScheduled(q) == FALSE

\* The tail of a finished drain: `if (updateQueue.length > 0)
\* setTimeout(processNextUpdate, 100)`, on the timers t and the queue q.
GapScheduled(q) == Len(q) > 0

AfterFinish(q, t) ==
    IF GapScheduled(q)
    THEN Append(t, [kind |-> "gap", delay |-> GAP_DELAY])
    ELSE t

GlowTimer(update) ==
    [kind |-> "glow", delay |-> GLOW_DURATION, update |-> update]

\* animateSection(sectionName, ..) of the vanilla script, on the document just
\* rendered: the header that gets the glow, 0 when the drain completes at once.
\* renderMarkdownBase has already set displayedContent to the new content.
animateSection(sectionName, content) ==
    LET header == findHeaderElement(sectionName, content)
    IN  IF header # 0 THEN header
        ELSE findHeaderElement(detectNewSection(content, content), content)

\* The effect of MarkdownRenderer: the rendered h1-h3 of `content` that get
\* glow-green while `animating` is the animatingSection, by position.  Every
\* header whose text equals, begins, is begun by, contains or is contained in
\* the name gets it.
GlowingHeaders(animating, content) ==
    IF Falsy(animating) THEN {}
    ELSE {i \in 1..Len(RenderedHeaders(content)) :
            MatchScore(trim(toLowerCase(RenderedHeaders(content)[i])),
                       trim(toLowerCase(animating))) > 0}

\* animateSection tabulated over the section names and documents of the model.
SectionNames == SectionInputs \cup TargetInputs
HeaderTable ==
    [sectionName \in SectionNames, content \in Docs |->
        animateSection(sectionName, content)]

AnimatedHeader(sectionName, content) == HeaderTable[sectionName, content]

\* Whether the drain of `update` by the front end i enters the animation
\* (500 ms) or finishes at once: React sets animatingSection for every name,
\* the vanilla animateSection completes at once when it finds no header.
AnimatesIn(i, update) ==
    IF i = "react" THEN ~Falsy(update.sectionName)
    ELSE ~Falsy(update.sectionName)
         /\ AnimatedHeader(update.sectionName, update.newContent) # 0

Animates(update) == AnimatesIn(impl, update)

ContentNotSwapped(update) == markdownContent

ContentSwapDeferred(update) ==
    IF Animates(update) THEN markdownContent ELSE update.newContent

\* The content on display right after the drain of `update` has begun.
ContentAtDrain(update) == update.newContent

\* processNextUpdate(), called with the queue q and the pending timers t.
processNextUpdate(q, t) ==
    IF ~CanProcess(q)
    THEN /\ updateQueue' = q
         /\ activeTimeouts' = t
         /\ UNCHANGED <<markdownContent, displayedContent, isProcessingQueue,
                        animatingSection, glowHeader, applied,
                        animations, lastShown, lastGap>>
    ELSE LET update == ShiftItem(q)
             rest == ShiftRest(q)
         IN  /\ updateQueue' = rest
             /\ markdownContent' = ContentAtDrain(update)
             /\ applied' = Append(applied, update.newContent)
             /\ lastShown' = "event"
             /\ IF Animates(update)
                THEN /\ isProcessingQueue' = TRUE
                     /\ activeTimeouts' = Append(t, GlowTimer(update))
                     /\ UNCHANGED lastGap
                     /\ IF impl = "react"
                        THEN /\ animatingSection' = update.sectionName
                             /\ animations' = animations + 1
                             /\ UNCHANGED <<displayedContent, glowHeader>>
                        ELSE /\ displayedContent' = update.newContent
                             /\ glowHeader' = AnimatedHeader(update.sectionName,
                                                             update.newContent)
                             /\ animations' = animations + 1
                             /\ UNCHANGED animatingSection
                ELSE /\ isProcessingQueue' = FALSE
                     /\ displayedContent' = update.newContent
                     /\ activeTimeouts' = AfterFinish(rest, t)
                     /\ lastGap' = GapScheduled(rest)
                     /\ glowHeader' = 0
                     /\ UNCHANGED <<animatingSection, animations>>

\* The section handleFileUpdated animates: data.section, else
\* change_info.target_section, else the heading found by diffing.
Unknown(s) == Falsy(s) \/ s = NoneStr

SectionTargetFirst(section, target, oldContent, newContent) ==
    LET s1 == IF Falsy(target) THEN NULL ELSE target
        s2 == IF Unknown(s1) THEN (IF Falsy(section) THEN NULL ELSE section) ELSE s1
    IN  IF Unknown(s2) THEN detectNewSection(oldContent, newContent) ELSE s2

SectionFor(section, target, oldContent, newContent) ==
    LET s1 == IF Falsy(section) THEN NULL ELSE section
        s2 == IF Unknown(s1) THEN (IF Falsy(target) THEN NULL ELSE target) ELSE s1
    IN  IF Unknown(s2) THEN detectNewSection(oldContent, newContent) ELSE s2

\* The oldContent handleFileUpdated compares against.
OldContent ==
    IF impl = "react"
    THEN IF EmptyText(displayedContent) THEN handlerContent ELSE displayedContent
    ELSE markdownContent

\* handleFileUpdated(data), with the scheduleFileUpdate and processNextUpdate
\* it calls.
handleFileUpdated(content, section, target) ==
    /\ received' = Append(received, content)
    /\ processNextUpdate(
          Append(updateQueue,
                 [newContent |-> content,
                  sectionName |-> SectionFor(section, target, OldContent, content)]),
          activeTimeouts)
    /\ UNCHANGED <<restVars, serverVars, pendingList, impl, handlerContent, evtSource,
                   snapshots>>

\* onmessage, type file_updated.
ReceiveFileUpdated(content, section, target) ==
    /\ evtSource = "open"
    /\ Len(received) < MaxEvents
    /\ handleFileUpdated(content, section, target)
    /\ UNCHANGED connVars

\* The callback of the 500 ms timer: the glow ends and the drain finishes.
GlowTimerFires(i) ==
    /\ i \in 1..Len(activeTimeouts)
    /\ activeTimeouts[i].kind = "glow"
    /\ isProcessingQueue' = FALSE
    /\ displayedContent' = IF impl = "react"
                           THEN activeTimeouts[i].update.newContent
                           ELSE markdownContent
    /\ animatingSection' = NULL
    /\ glowHeader' = 0
    /\ activeTimeouts' = AfterFinish(updateQueue, RemoveAt(activeTimeouts, i))
    /\ lastGap' = GapScheduled(updateQueue)
    /\ UNCHANGED <<restVars, serverVars, streamVars, impl, markdownContent, updateQueue,
                   handlerContent, evtSource, received, applied, animations,
                   lastShown, snapshots>>

\* The callback of the 100 ms timer: processNextUpdate.
GapTimerFires(i) ==
    /\ i \in 1..Len(activeTimeouts)
    /\ activeTimeouts[i].kind = "gap"
    /\ processNextUpdate(updateQueue, RemoveAt(activeTimeouts, i))
    /\ UNCHANGED <<restVars, serverVars, streamVars, impl, handlerContent, evtSource,
                   received, snapshots>>

PendingMerged(prev, pending) == prev \o pending

\* The pending list after an init snapshot: the snapshot's list.
PendingOfInit(prev, pending) == pending

\* The init branch of onmessage: the snapshot replaces the document on display,
\* the baseline and the pending list.
handleInit(content, pending) ==
    /\ snapshots' = snapshots + 1
    /\ markdownContent' = content
    /\ displayedContent' = content
    /\ pendingList' = PendingOfInit(pendingList, pending)
    /\ glowHeader' = 0
    /\ lastShown' = "snapshot"
    /\ UNCHANGED <<restVars, serverVars, impl, updateQueue, isProcessingQueue,
                   animatingSection,
                   activeTimeouts, handlerContent, evtSource, received,
                   applied, animations, lastGap>>

\* onmessage, type init.
ReceiveInit(content, pending) ==
    /\ evtSource = "open"
    /\ snapshots < MaxSnapshots
    /\ handleInit(content, pending)
    /\ UNCHANGED connVars

\* loadInitialState(), from the point its fetches settle: ok with the notes'
\* content ('' for none), or the catch branch.
LoadInitialState(ok, content, pending) ==
    /\ snapshots < MaxSnapshots
    /\ snapshots' = snapshots + 1
    /\ pendingList' = IF ok THEN pending ELSE pendingList
    /\ markdownContent' = IF ok /\ ~EmptyText(content) THEN content ELSE DefaultDoc
    /\ displayedContent' =
          IF impl = "react" /\ ~ok THEN displayedContent ELSE markdownContent'
    /\ glowHeader' = 0
    /\ lastShown' = "snapshot"
    /\ UNCHANGED <<restVars, serverVars, connVars, impl, updateQueue, isProcessingQueue,
                   animatingSection, activeTimeouts, handlerContent, evtSource,
                   received, applied, animations, lastGap>>

\* connectSSE(): a new EventSource whose onmessage closes over the
\* handleFileUpdated (and so the markdownContent) of the current render.
ConnectSSE ==
    /\ evtSource = "none"
    /\ evtSource' = "open"
    /\ handlerContent' = IF impl = "react" THEN markdownContent ELSE handlerContent
    /\ UNCHANGED <<restVars, serverVars, streamVars, impl, markdownContent, displayedContent,
                   updateQueue, isProcessingQueue, animatingSection, glowHeader,
                   activeTimeouts, received, applied, animations,
                   lastShown, lastGap, snapshots>>

\* The timers that may fire next.  Timers fire in the order of their deadlines.
\* Gap timers (100 ms) are created only by a finished drain, the glow timer
\* (500 ms) only by a drain that starts while no other glow timer is pending,
\* so every pending timer was created before, and is due before, the ones
\* behind it in activeTimeouts.
DueTimers == IF activeTimeouts = <<>> THEN {} ELSE {1}

(***************************************************************************)
(* Part III: the back end of one project                                   *)
(*                                                                         *)
(* A chunk's text is a sequence of lower-case words.  The document is a    *)
(* sequence of sections [heading, body]; the body lists the chunks the     *)
(* rewrites have worked into the section.  Similarity scores are in        *)
(* hundredths.                                                             *)
(***************************************************************************)

\* Chunks submitted to the project in a run.
MaxChunks == 2

\* SIMILARITY_THRESHOLD = 0.65
T_confident == 65

\* The floor threshold: below it a chunk is unrelated to every section.
T_floor == 40

\* Similarity scores the nearest-neighbour search reports.
Scores == {39, 40, 64, 65}

ChunkTexts ==
    { <<"use", "ads">>,
      <<"wait", "use", "ads">>,
      <<"actually", "wait", "use", "tiktok">>,
      <<"maybe", "ads">> }

\* Headings the rewriter infers for a new section.
Headings == {ab, b}

ResolveActions == {"approve", "create_new", "reject"}

ServerInit ==
    /\ document = <<>>
    /\ pendingUpdates = {}
    /\ nextId = 0
    /\ chunkSeq = 0
    /\ events = <<>>
    /\ failed = {}
    /\ decided = <<>>
    /\ classified = [decision |-> [kind |-> "none"]]
    /\ rewritten = [decision |-> [kind |-> "none"]]
    /\ waiting = {}
    /\ cycles = {}
    /\ rewriteLock = 0
    /\ lastResolve = "none"
    /\ lastResolveId = 0

\* The state of the rewrite cycles.
cycleVars == <<waiting, cycles, rewriteLock>>

\* The explicit hedge / retraction patterns and the generic hedge words.
HedgePatterns ==
    { <<"wait", "no">>, <<"actually", "wait">>, <<"scratch", "that">>,
      <<"nevermind">>, <<"maybe">>, <<"possibly">> }

\* Step 3 of the classifier: hedge/retraction language is present in the chunk.
HasHedge(text) == \E p \in HedgePatterns : includes(text, p)

\* Step 2: best = argmax similarity (the first section on a tie), 0 when the
\* document has no section; score = similarity(best), 0 when there is none.
BestSection(sims) ==
    IF sims = <<>> THEN 0
    ELSE CHOOSE i \in 1..Len(sims) :
            \A j \in 1..Len(sims) :
                sims[j] < sims[i] \/ (sims[j] = sims[i] /\ j >= i)

BestScore(sims) == IF sims = <<>> THEN 0 ELSE sims[BestSection(sims)]

HedgeIgnored(text) == FALSE

ForcedUncertain(text) == HasHedge(text)

\* Step 4: score >= T_confident
Confident(score) == score >= T_confident

FloorInverted(score) == score > T_floor

FloorIncluded(score) == score <= T_floor

\* Step 5: score < T_floor
BelowFloor(score) == score < T_floor

\* The Decisions.  heading is the section to update, the heading to create, or
\* the candidateHeading of an Uncertain decision (NULL when there is none);
\* similarity is the best score (the candidateSimilarity of Uncertain).
Update(heading, score) ==
    [kind |-> "Update", heading |-> heading, similarity |-> score,
     reason |-> "", suggestedHeading |-> NULL]

Create(heading, score) ==
    [kind |-> "Create", heading |-> heading, similarity |-> score,
     reason |-> "", suggestedHeading |-> heading]

Uncertain(reason, candidateHeading, candidateSimilarity, suggestedHeading) ==
    [kind |-> "Uncertain", heading |-> candidateHeading,
     similarity |-> candidateSimilarity, reason |-> reason,
     suggestedHeading |-> suggestedHeading]

\* The Match Classifier: the Decision for a chunk, given the headings of the
\* Section Index, the similarity to each section, and the heading a new section
\* would get.
Classify(text, headings, sims, newHeading) ==
    LET best == BestSection(sims)
        score == BestScore(sims)
        candidate == IF best = 0 THEN NULL ELSE headings[best]
    IN  IF ForcedUncertain(text)
        THEN Uncertain("hedge or retraction language", candidate, score, newHeading)
        ELSE IF Confident(score) /\ best # 0 THEN Update(candidate, score)
        ELSE IF BelowFloor(score) THEN Create(newHeading, score)
        ELSE Uncertain("ambiguous section match", candidate, score, newHeading)

\* The Section Index of the document: its headings in order.
SectionIndex(doc) == [i \in 1..Len(doc) |-> doc[i].heading]

\* The first section with the heading, 0 when there is none.
SectionOf(doc, heading) ==
    IF \E i \in 1..Len(doc) : doc[i].heading = heading
    THEN CHOOSE i \in 1..Len(doc) :
            /\ doc[i].heading = heading
            /\ \A j \in 1..(i - 1) : doc[j].heading # heading
    ELSE 0

RewriteMovesSection(doc, decision, chunk) ==
    IF decision.kind = "Update" /\ SectionOf(doc, decision.heading) # 0
    THEN LET at == SectionOf(doc, decision.heading)
         IN  Append(SubSeq(doc, 1, at - 1) \o SubSeq(doc, at + 1, Len(doc)),
                    [doc[at] EXCEPT !.body = Append(@, chunk)])
    ELSE Append(doc, [heading |-> decision.heading, body |-> <<chunk>>])

\* rewrite(document, decision, chunk): the new document.
Rewrite(doc, decision, chunk) ==
    IF decision.kind = "Update" /\ SectionOf(doc, decision.heading) # 0
    THEN [doc EXCEPT ![SectionOf(doc, decision.heading)].body = Append(@, chunk)]
    ELSE Append(doc, [heading |-> decision.heading, body |-> <<chunk>>])

ChangeEvent(doc, decision, chunk) ==
    [type |-> "file_updated", newDocumentBody |-> doc,
     changedHeading |-> decision.heading, chunk |-> chunk]

PartlyWritten(doc, newDocument) == newDocument

\* A failed rewrite is abandoned: the document the project keeps.
Abandoned(doc, newDocument) == doc

CommitsAnyDecision(decision) == TRUE

\* A decision the pipeline hands to the Document Rewriter at once.
Commits(decision) == decision.kind \in {"Update", "Create"}

PendingUpdate(id, chunk, decision) ==
    [id |-> id, chunk |-> chunk,
     matchedSection |-> decision.heading,
     similarityScore |-> decision.similarity,
     suggestedHeading |-> decision.suggestedHeading,
     reason |-> decision.reason]

\* The classifier is consulted for a chunk, given a Section Index and the
\* similarity of the chunk to each of its sections.
ClassifyChunk(text, headings, sims, newHeading) ==
    /\ classified.decision.kind = "none"
    /\ classified' = [text |-> text, headings |-> headings, sims |-> sims,
                      decision |-> Classify(text, headings, sims, newHeading)]
    /\ UNCHANGED <<subscriberVars, document, pendingUpdates, nextId, chunkSeq,
                   events, failed, decided, rewritten, cycleVars, lastResolve,
                   lastResolveId>>

\* The Document Rewriter is called with a document, a decision and a chunk.
RewriteDocument(doc, decision, chunk) ==
    /\ rewritten.decision.kind = "none"
    /\ rewritten' = [doc |-> doc, decision |-> decision, chunk |-> chunk,
                     out |-> Rewrite(doc, decision, chunk)]
    /\ UNCHANGED <<subscriberVars, document, pendingUpdates, nextId, chunkSeq,
                   events, failed, decided, classified, cycleVars, lastResolve,
                   lastResolveId>>

\* The forced decision of resolve(id, action) for the PendingUpdate p.
ForcedDecision(p, action) ==
    IF action = "approve" /\ p.matchedSection # NULL
    THEN Update(p.matchedSection, p.similarityScore)
    ELSE Create(p.suggestedHeading, p.similarityScore)

\* A chunk is processed: classified, then rewritten at once or stored as a
\* PendingUpdate.  ok: the external rewrite call succeeds.
ProcessChunk(text, sims, newHeading, ok) ==
    LET chunk == chunkSeq + 1
        decision == Classify(text, SectionIndex(document), sims, newHeading)
        newDocument == Rewrite(document, decision, chunk)
    IN  /\ chunkSeq < MaxChunks
        /\ chunkSeq' = chunk
        /\ decided' = Append(decided, decision.kind)
        /\ IF Commits(decision)
           THEN IF ok
                THEN /\ document' = newDocument
                     /\ events' = Append(events,
                                         ChangeEvent(newDocument, decision, chunk))
                     /\ UNCHANGED <<pendingUpdates, nextId, failed>>
                ELSE /\ failed' = failed \cup {chunk}
                     /\ document' = Abandoned(document, newDocument)
                     /\ UNCHANGED <<events, pendingUpdates, nextId>>
           ELSE /\ nextId' = nextId + 1
                /\ pendingUpdates' =
                      pendingUpdates \cup {PendingUpdate(nextId + 1, chunk, decision)}
                /\ events' = Append(events, [type |-> "pending_update",
                                             id |-> nextId + 1, chunk |-> chunk])
                /\ UNCHANGED <<document, failed>>
        /\ UNCHANGED <<subscriberVars, classified, rewritten, cycleVars,
                       lastResolve, lastResolveId>>

PendingResolved(p, action) ==
    [type |-> "pending_resolved", id |-> p.id, chunk |-> p.chunk, action |-> action]

RejectIgnored(action) == FALSE

\* resolve with reject: the entry is deleted and nothing is rewritten.
Rejects(action) == action = "reject"

EntryKept(p) == pendingUpdates

\* resolve deletes the entry: the store without the PendingUpdate p.
EntryDeleted(p) == pendingUpdates \ {p}

\* resolve(id, action).  ok: the external rewrite call succeeds.
Resolve(id, action, ok) ==
    /\ lastResolveId' = id
    /\ IF \A p \in pendingUpdates : p.id # id
       THEN /\ lastResolve' = "not_found"
            /\ UNCHANGED <<document, pendingUpdates, events, failed>>
       ELSE LET p == CHOOSE q \in pendingUpdates : q.id = id
                forced == ForcedDecision(p, action)
                newDocument == Rewrite(document, forced, p.chunk)
            IN  IF Rejects(action)
                THEN /\ pendingUpdates' = EntryDeleted(p)
                     /\ events' = Append(events, PendingResolved(p, action))
                     /\ lastResolve' = "rejected"
                     /\ UNCHANGED <<document, failed>>
                ELSE IF ok
                THEN /\ document' = newDocument
                     /\ pendingUpdates' = EntryDeleted(p)
                     /\ events' = events \o <<ChangeEvent(newDocument, forced, p.chunk),
                                              PendingResolved(p, action)>>
                     /\ lastResolve' = "success"
                     /\ UNCHANGED failed
                ELSE /\ failed' = failed \cup {p.chunk}
                     /\ lastResolve' = "error"
                     /\ document' = Abandoned(document, newDocument)
                     /\ UNCHANGED <<pendingUpdates, events>>
    /\ UNCHANGED <<subscriberVars, nextId, chunkSeq, decided, classified, rewritten,
                   cycleVars>>

\* Chunks submitted while rewrite cycles are followed.
MaxCycleChunks == 3

\* A chunk with a confident decision is queued for the Document Rewriter.
SubmitChunk(decision) ==
    /\ chunkSeq < MaxCycleChunks
    /\ chunkSeq' = chunkSeq + 1
    /\ decided' = Append(decided, decision.kind)
    /\ waiting' = waiting \cup {[chunk |-> chunkSeq + 1, decision |-> decision]}
    /\ UNCHANGED <<subscriberVars, document, pendingUpdates, nextId, events, failed,
                   classified, rewritten, cycles, rewriteLock, lastResolve,
                   lastResolveId>>

LockIgnored(lock) == TRUE

\* The per-project lock can be taken.
LockFree(lock) == lock = 0

\* A rewrite cycle begins: it takes the lock and reads the current document.
BeginRewrite(w) ==
    /\ w \in waiting
    /\ LockFree(rewriteLock)
    /\ rewriteLock' = w.chunk
    /\ waiting' = waiting \ {w}
    /\ cycles' = cycles \cup {[chunk |-> w.chunk, decision |-> w.decision,
                                read |-> document]}
    /\ UNCHANGED <<subscriberVars, document, pendingUpdates, nextId, chunkSeq, events,
                   failed, decided, classified, rewritten, lastResolve,
                   lastResolveId>>

\* A rewrite cycle ends: it writes the new document computed from the one it
\* read and emits the ChangeEvent, or is abandoned; then releases the lock.
FinishRewrite(c, ok) ==
    LET newDocument == Rewrite(c.read, c.decision, c.chunk)
    IN  /\ c \in cycles
        /\ cycles' = cycles \ {c}
        /\ rewriteLock' = IF rewriteLock = c.chunk THEN 0 ELSE rewriteLock
        /\ IF ok
           THEN /\ document' = newDocument
                /\ events' = Append(events,
                                    ChangeEvent(newDocument, c.decision, c.chunk))
                /\ UNCHANGED failed
           ELSE /\ failed' = failed \cup {c.chunk}
                /\ document' = Abandoned(document, newDocument)
                /\ UNCHANGED events
        /\ UNCHANGED <<subscriberVars, pendingUpdates, nextId, chunkSeq, decided,
                       classified, rewritten, waiting, lastResolve, lastResolveId>>

(***************************************************************************)
(* The event channel and the subscriber's connection to it                 *)
(*                                                                         *)
(* A message is the event with the fields onmessage reads; seq is its      *)
(* place in the channel's commit order (0 for an init snapshot), and       *)
(* wellFormed says whether its payload is JSON that JSON.parse accepts.    *)
(***************************************************************************)

\* Events committed while the connection is followed, and the EventSources
\* the subscriber creates.
MaxMessages == 2
MaxConnections == 2

Message(type, seq, chunk, content, section, pending, id, wellFormed) ==
    [type |-> type, seq |-> seq, chunk |-> chunk, content |-> content,
     section |-> section, pending |-> pending, id |-> id,
     wellFormed |-> wellFormed]

\* The init snapshot of what the back end serves.
InitSnapshot(s) == Message("init", 0, 0, s.content, NULL, s.pending, 0, TRUE)

EnqueueFirst(q, e) == <<e>> \o q

\* The subscriber's queue on the channel is first in, first out.
Enqueue(q, e) == Append(q, e)

\* The channel commits an event and broadcasts it to the open stream.
Broadcast(e, nowServed) ==
    /\ Len(events) < MaxMessages
    /\ events' = Append(events, e)
    /\ served' = nowServed
    /\ stream' = IF evtSource = "open" THEN Enqueue(stream, e) ELSE stream
    /\ missed' = IF evtSource = "open" THEN missed ELSE missed \cup {e.seq}
    /\ UNCHANGED <<restVars, clientVars, pendingList, handled, reconnectTimer, connections,
                   document, pendingUpdates, failed, decided, classified,
                   rewritten, cycleVars, lastResolve, lastResolveId>>

\* A rewrite completes: its ChangeEvent is broadcast once.
CommitChange(content, section, wellFormed) ==
    /\ Broadcast(Message("file_updated", Len(events) + 1, chunkSeq + 1, content,
                         section, <<>>, 0, wellFormed),
                 [served EXCEPT !.content = content])
    /\ chunkSeq' = chunkSeq + 1
    /\ UNCHANGED nextId

\* A PendingUpdate is created: PendingCreated is broadcast.
CommitPending ==
    /\ Broadcast(Message("pending_update", Len(events) + 1, 0, <<>>, NULL, <<>>,
                         nextId + 1, TRUE),
                 [served EXCEPT !.pending = Append(@, nextId + 1)])
    /\ nextId' = nextId + 1
    /\ UNCHANGED chunkSeq

\* A PendingUpdate is resolved: PendingResolved is broadcast.
CommitResolved(id) ==
    /\ InSeq(id, served.pending)
    /\ Broadcast(Message("pending_resolved", Len(events) + 1, 0, <<>>, NULL, <<>>,
                         id, TRUE),
                 [served EXCEPT !.pending = SelectSeq(@, LAMBDA p : p # id)])
    /\ UNCHANGED <<chunkSeq, nextId>>

\* new EventSource(...): the back end answers with the init snapshot.
Subscribe ==
    /\ evtSource' = "open"
    /\ connections' = connections + 1
    /\ stream' = <<InitSnapshot(served)>>

\* connectSSE(), called once loadInitialState() has settled.
OpenStream ==
    /\ evtSource = "none"
    /\ snapshots > 0
    /\ Subscribe
    /\ handlerContent' = IF impl = "react" THEN markdownContent ELSE handlerContent
    /\ UNCHANGED <<restVars, serverVars, pendingList, handled, reconnectTimer, served,
                   missed, impl, markdownContent, displayedContent, updateQueue,
                   isProcessingQueue, animatingSection, glowHeader,
                   activeTimeouts, received, applied, animations, lastShown,
                   lastGap, snapshots>>

ParsesAnything(m) == FALSE

\* JSON.parse(event.data) throws.
ParseFails(m) == ~m.wellFormed

\* The message onmessage is called with next.
Inbound(type) ==
    /\ evtSource = "open"
    /\ stream # <<>>
    /\ Head(stream).type = type
    /\ ~ParseFails(Head(stream))

\* onmessage has taken the head of the stream.
Taken ==
    /\ stream' = Tail(stream)
    /\ handled' = Append(handled, [connection |-> connections,
                                    seq |-> Head(stream).seq,
                                    type |-> Head(stream).type,
                                    wellFormed |-> Head(stream).wellFormed])
    /\ UNCHANGED <<reconnectTimer, connections, served, missed>>

\* onmessage, type init, on the stream.
OnInit ==
    /\ Inbound("init")
    /\ handleInit(Head(stream).content, Head(stream).pending)
    /\ Taken

\* onmessage, type file_updated, on the stream.
OnFileUpdated ==
    /\ Inbound("file_updated")
    /\ handleFileUpdated(Head(stream).content, Head(stream).section, NULL)
    /\ Taken

\* onmessage, type pending_update: the PendingUpdate joins the list.
OnPendingUpdate ==
    /\ Inbound("pending_update")
    /\ pendingList' = Append(pendingList, Head(stream).id)
    /\ Taken
    /\ UNCHANGED <<restVars, clientVars, serverVars>>

WithoutHead(list, id) == IF list = <<>> THEN list ELSE Tail(list)

\* prev.filter(p => p.id !== id)
WithoutId(list, id) == SelectSeq(list, LAMBDA p : p # id)

\* onmessage, type pending_resolved: the PendingUpdate leaves the list.
OnPendingResolved ==
    /\ Inbound("pending_resolved")
    /\ pendingList' = WithoutId(pendingList, Head(stream).id)
    /\ Taken
    /\ UNCHANGED <<restVars, clientVars, serverVars>>

\* onmessage, JSON.parse throws: the catch logs the error.
OnUnparseable ==
    /\ evtSource = "open"
    /\ stream # <<>>
    /\ ParseFails(Head(stream))
    /\ Taken
    /\ UNCHANGED <<restVars, clientVars, serverVars, pendingList>>

ReconnectForgotten(timer) == timer

\* setTimeout(connectSSE, 3000)
ReconnectScheduled(timer) == TRUE

\* onerror: the failed EventSource is closed and a reconnect is scheduled.
TransportFails ==
    /\ evtSource = "open"
    /\ connections < MaxConnections
    /\ evtSource' = "closed"
    /\ stream' = <<>>
    /\ reconnectTimer' = ReconnectScheduled(reconnectTimer)
    /\ UNCHANGED <<restVars, serverVars, pendingList, handled, connections, served, missed,
                   impl, markdownContent, displayedContent, updateQueue,
                   isProcessingQueue, animatingSection, glowHeader,
                   activeTimeouts, handlerContent, received, applied,
                   animations, lastShown, lastGap, snapshots>>

\* The 3 s timer fires: connectSSE(), with the handlers the failed
\* connection had.
ReconnectTimerFires ==
    /\ reconnectTimer
    /\ reconnectTimer' = FALSE
    /\ Subscribe
    /\ UNCHANGED <<restVars, serverVars, pendingList, handled, served, missed,
                   impl, markdownContent, displayedContent, updateQueue,
                   isProcessingQueue, animatingSection, glowHeader,
                   activeTimeouts, handlerContent, received, applied,
                   animations, lastShown, lastGap, snapshots>>

(***************************************************************************)
(* Chunk submission: what the originator of a chunk is shown               *)
(***************************************************************************)

\* Chunks submitted while the transcript is followed.
MaxSubmitted == 2

\* What the request of a submitted chunk comes to: the reply's status, whether
\* it carries an error text and a transcription; "thrown" when the request
\* itself fails.
Reply(status, error, transcription) ==
    [status |-> status, error |-> error, transcription |-> transcription]

Replies ==
    {Reply("queued", FALSE, TRUE), Reply("queued", FALSE, FALSE),
     Reply("pending", FALSE, FALSE),
     Reply("success", FALSE, FALSE), Reply("error", TRUE, FALSE),
     Reply("thrown", FALSE, FALSE)}

NoReply == Reply("none", FALSE, FALSE)

\* The submission failed.
Failed(reply) == reply.status \in {"error", "thrown"}

Item(kind, status, reply, expires) ==
    [kind |-> kind, status |-> status, reply |-> reply, expires |-> expires,
     removed |-> FALSE]

\* The status processTextInput (api.js) and handleTextSubmit (page.tsx) show
\* for a text chunk once the request has settled.
TextStatus(reply) ==
    IF reply.status = "thrown" THEN "error"
    ELSE IF impl = "react"
         THEN IF reply.status = "queued" THEN "queued" ELSE "success"
         ELSE IF reply.status \in {"pending", "success"} THEN reply.status
              ELSE "error"

\* The status processChunkAsync shows for an audio chunk once the request
\* has settled; prev when neither branch is taken.
ChunkStatus(reply, prev) ==
    IF reply.status = "thrown" THEN "error"
    ELSE IF reply.status = "queued" /\ (impl = "react" => reply.transcription)
         THEN "queued"
         ELSE IF reply.error THEN "error" ELSE prev

\* The chunk is submitted: its item shows "processing".
Submitted(kind) ==
    /\ processingItems' =
          Append(processingItems, Item(kind, "processing", NoReply, FALSE))
    /\ UNCHANGED <<clientVars, serverVars, streamVars, harnessVars,
                   recordingVars, projectVars>>

\* processTextInput / handleTextSubmit, up to the request.
TextSubmitted ==
    /\ Len(processingItems) < MaxSubmitted
    /\ Submitted("text")

\* processChunkAsync, up to the request.
ChunkRecorded ==
    /\ Len(processingItems) < MaxSubmitted
    /\ Submitted("audio")

\* The item's request has not settled.
InFlight(i) ==
    /\ i \in 1..Len(processingItems)
    /\ processingItems[i].reply = NoReply

\* processTextInput / handleTextSubmit, from the reply on.  The React page
\* sets the 3 s removal timer on every reply.
TextSettled(i, reply) ==
    /\ InFlight(i)
    /\ processingItems[i].kind = "text"
    /\ processingItems' =
          [processingItems EXCEPT
             ![i] = Item("text", TextStatus(reply), reply,
                         impl = "react" /\ reply.status # "thrown")]
    /\ UNCHANGED <<clientVars, serverVars, streamVars, harnessVars,
                   recordingVars, projectVars>>

\* processChunkAsync, from the reply on.  handleTranscript of the React page
\* sets the 3 s removal timer when the status is 'queued'.
ChunkSettled(i, reply) ==
    LET status == ChunkStatus(reply, processingItems[i].status)
    IN  /\ InFlight(i)
        /\ processingItems[i].kind = "audio"
        /\ processingItems' =
              [processingItems EXCEPT
                 ![i] = Item("audio", status, reply,
                             impl = "react" /\ status = "queued")]
        /\ UNCHANGED <<clientVars, serverVars, streamVars, harnessVars,
                   recordingVars, projectVars>>

\* The 3 s removal timer of the React page fires: the item leaves the list.
ItemExpires(i) ==
    /\ i \in 1..Len(processingItems)
    /\ processingItems[i].expires
    /\ ~processingItems[i].removed
    /\ processingItems' = [processingItems EXCEPT ![i].removed = TRUE]
    /\ UNCHANGED <<clientVars, serverVars, streamVars, harnessVars,
                   recordingVars, projectVars>>

(***************************************************************************)
(* One handleFileUpdated call, followed from the event to the replay queue *)
(***************************************************************************)

\* The update whose animation is running when the event arrives.
RunningUpdate(content) == [newContent |-> content, sectionName |-> ab]

\* The subscriber with a document on display, idle or in an animation.
\* React keeps the baseline of before the animation, and has none when
\* loadInitialState failed; the vanilla script rendered the document.
HeadingInit ==
    /\ ServerInit
    /\ AsideInit
    /\ impl \in Impls
    /\ evtSource = "open"
    /\ updateQueue = <<>>
    /\ received = <<>>
    /\ applied = <<>>
    /\ lastGap = FALSE
    /\ snapshots = 1
    /\ \E shown \in Docs, before \in Docs \cup {<<>>}, busy \in BOOLEAN :
          /\ markdownContent = IF ~busy /\ before = <<>> THEN DefaultDoc ELSE shown
          /\ isProcessingQueue = busy
          /\ activeTimeouts = IF busy THEN <<GlowTimer(RunningUpdate(shown))>>
                                      ELSE <<>>
          /\ animations = IF busy THEN 1 ELSE 0
          /\ lastShown = IF busy THEN "event" ELSE "snapshot"
          /\ IF impl = "react"
             THEN /\ displayedContent = IF busy \/ before = <<>> THEN before
                                                                 ELSE shown
                  /\ handlerContent = IF before = <<>> THEN DefaultDoc ELSE before
                  /\ animatingSection = IF busy THEN ab ELSE NULL
                  /\ glowHeader = 0
             ELSE /\ displayedContent = markdownContent
                  /\ handlerContent = <<>>
                  /\ animatingSection = NULL
                  /\ glowHeader = IF busy THEN AnimatedHeader(ab, shown) ELSE 0

\* A file_updated message reaches onmessage: data.content, data.section and
\* data.change_info.target_section, beside the baseline of that moment.
Hear(content, section, target) ==
    /\ ~heard.set
    /\ heard' = [set |-> TRUE, content |-> content, section |-> section,
                 target |-> target, old |-> OldContent,
                 busy |-> isProcessingQueue]
    /\ UNCHANGED <<clientVars, serverVars, streamVars, submitVars,
                   recordingVars, projectVars>>

\* onmessage, type file_updated, for the message heard.
HandleHeard ==
    /\ heard.set
    /\ received = <<>>
    /\ handleFileUpdated(heard.content, heard.section, heard.target)
    /\ UNCHANGED connVars

(***************************************************************************)
(* A snapshot applied while events received before it are being replayed  *)
(***************************************************************************)

\* The updates waiting behind the one being animated.
WaitingUpdates ==
    {<<>>} \cup {<<[newContent |-> content, sectionName |-> sectionName]>> :
                    content \in Docs, sectionName \in {NULL, ab, b}}

\* The subscriber in the animation of one received event, with at most one
\* more received event waiting in the replay queue; no snapshot has been
\* applied since they were received.
StaleInit ==
    /\ ServerInit
    /\ AsideInit
    /\ impl \in Impls
    /\ evtSource = "open"
    /\ applied = <<>>
    /\ lastGap = FALSE
    /\ snapshots = 0
    /\ isProcessingQueue = TRUE
    /\ animations = 1
    /\ lastShown = "event"
    /\ \E shown \in Docs, before \in Docs \cup {<<>>}, q \in WaitingUpdates :
          /\ markdownContent = shown
          /\ updateQueue = q
          /\ received = <<shown>> \o [n \in 1..Len(q) |-> q[n].newContent]
          /\ activeTimeouts = <<GlowTimer(RunningUpdate(shown))>>
          /\ IF impl = "react"
             THEN /\ displayedContent = before
                  /\ handlerContent = IF before = <<>> THEN DefaultDoc ELSE before
                  /\ animatingSection = ab
                  /\ glowHeader = 0
             ELSE /\ displayedContent = markdownContent
                  /\ handlerContent = <<>>
                  /\ animatingSection = NULL
                  /\ glowHeader = AnimatedHeader(ab, shown)

(***************************************************************************)
(* detectNewSection, called on pairs of documents                          *)
(***************************************************************************)

\* The lines of the documents: headings of levels 1 to 4, one with trailing
\* white space, and a paragraph.
MaxLines == 2
Lines == {H(1, ab), H(2, b), H(3, <<"b", " ">>), H(4, z), P(x)}
LineDocs == UNION {[1..n -> Lines] : n \in 0..MaxLines}

\* detectNewSection(oldContent, newContent) is called.
Detect(oldContent, newContent) ==
    /\ ~heard.set
    /\ heard' = [set |-> TRUE, old |-> oldContent, content |-> newContent,
                 detected |-> detectNewSection(oldContent, newContent)]
    /\ UNCHANGED <<clientVars, serverVars, streamVars, submitVars,
                   recordingVars, projectVars>>

\* The documents findHeaderElement is followed on: up to MaxHeaders lines,
\* headings that are equal to, begin with, end with or contain one another,
\* and a paragraph.
MaxHeaders == 2
abz == <<"a", "b", "z">>
zab == <<"z", "a", "b">>
HeaderLines == {H(1, ab), H(2, b), H(3, abz), H(2, zab), P(ab)}
HeaderDocs == UNION {[1..n -> HeaderLines] : n \in 0..MaxHeaders}

\* The names looked up: missing, empty, blank, in another case and padded,
\* and names equal to, beginning, ending or absent from the headings.
HeaderNames ==
    {NULL, <<>>, <<" ">>, <<"A", "b", " ">>, ab, b, <<"a">>, abz, x}

\* findHeaderElement(sectionName) is called on the rendered document.
FindHeader(sectionName, doc) ==
    /\ ~heard.set
    /\ heard' = [set |-> TRUE, name |-> sectionName, content |-> doc,
                 found |-> findHeaderElement(sectionName, doc)]
    /\ UNCHANGED <<clientVars, serverVars, streamVars, submitVars,
                   recordingVars, projectVars>>

(***************************************************************************)
(* The pending list: pending events and the replies to resolve requests    *)
(***************************************************************************)

\* Pending events and resolve replies followed, and the ids they name.
MaxPendingEvents == 3
MaxReplies == 1
PendingIds == 1..2

\* The subscriber connected and idle, its pending list empty.
PendingInit ==
    /\ ServerInit
    /\ AsideInit
    /\ impl \in Impls
    /\ markdownContent = DefaultDoc
    /\ displayedContent = IF impl = "react" THEN <<>> ELSE DefaultDoc
    /\ updateQueue = <<>>
    /\ isProcessingQueue = FALSE
    /\ animatingSection = NULL
    /\ glowHeader = 0
    /\ activeTimeouts = <<>>
    /\ handlerContent = IF impl = "react" THEN DefaultDoc ELSE <<>>
    /\ evtSource = "open"
    /\ received = <<>>
    /\ applied = <<>>
    /\ animations = 0
    /\ lastShown = "snapshot"
    /\ lastGap = FALSE
    /\ snapshots = 1

\* A pending_update or pending_resolved message is queued on the stream.
PendingArrives(type, id) ==
    /\ Len(stream) + Len(handled) < MaxPendingEvents
    /\ stream' = Enqueue(stream,
                         Message(type, Len(stream) + Len(handled) + 1, 0, <<>>,
                                 NULL, <<>>, id, TRUE))
    /\ UNCHANGED <<clientVars, serverVars, restVars, pendingList, handled,
                   reconnectTimer, connections, served, missed>>

\* The replies to a resolve request; "thrown" when the request fails.
ResolveReplies == {"success", "rejected", "not_found", "thrown"}

\* Whether the handler of the reply takes the entry off the list:
\* resolvePending of the vanilla script reads the status, handlePendingResolve
\* of the React page only needs the request not to throw.
ReplyRemoves(status) ==
    IF impl = "react" THEN status # "thrown"
    ELSE status \in {"success", "rejected"}

\* resolvePending / handlePendingResolve, from the reply on.
ResolveReplied(id, status) ==
    /\ (IF heard.set THEN heard.replies ELSE 0) < MaxReplies
    /\ heard' = [set |-> TRUE, id |-> id, status |-> status,
                 replies |-> (IF heard.set THEN heard.replies ELSE 0) + 1]
    /\ pendingList' = IF ReplyRemoves(status) THEN WithoutId(pendingList, id)
                                              ELSE pendingList
    /\ UNCHANGED <<clientVars, serverVars, connVars, submitVars,
                   recordingVars, projectVars>>

(***************************************************************************)
(* The recorder: recording sessions, chunk uploads and their items         *)
(***************************************************************************)

\* MediaRecorders followed, those of startRecording calls still awaiting the
\* microphone included.
MaxSessions == 3

\* A recorded blob is uploaded only when it is larger than this many bytes.
MinBlobSize == 1000

\* The sizes of the blob a stopped MediaRecorder delivers: nothing, a blob
\* under the threshold, a blob over it.
BlobSizes == {0, 500, 2000}

\* A MediaRecorder: "recording" from start(), "stopping" once stop() has been
\* called and its dataavailable and stop events are still to be dispatched,
\* "inactive" after them; the size of the blob it delivered and how often the
\* blob was passed to processChunkAsync.
Session(state, size, handed) ==
    [state |-> state, size |-> size, handed |-> handed]

\* The id of a chunk's transcript item: `chunk-${chunkNum}` in handleTranscript
\* of the React page, `chunk-${chunkNum}-${Date.now()}` in processChunkAsync of
\* the vanilla script.  The clock is the number of MediaRecorders created so
\* far: two blobs with the same chunk number come from different
\* startRecording calls, hence from recorders stopped at different times.
ItemId(chunkNum, now) ==
    IF impl = "react" THEN <<chunkNum>> ELSE <<chunkNum, now>>

\* The place of the first item with the id, 0 when there is none.
ItemAt(items, id) ==
    IF \E n \in 1..Len(items) : items[n].id = id
    THEN CHOOSE n \in 1..Len(items) :
            /\ items[n].id = id
            /\ \A k \in 1..(n - 1) : items[k].id # id
    ELSE 0

ChunkItem(id, status, by) == [id |-> id, status |-> status, by |-> by]

\* Map.set of handleTranscript: the entry of the key is replaced where it
\* stands, a new key is added at the end.
MapSet(items, id, status, by) ==
    IF ItemAt(items, id) = 0
    THEN Append(items, ChunkItem(id, status, by))
    ELSE [items EXCEPT ![ItemAt(items, id)] = ChunkItem(id, status, by)]

\* The transcript once upload u has announced its chunk: addTranscriptItem
\* appends an element, handleTranscript sets the key.
ShownProcessing(items, id, u) ==
    IF impl = "react" THEN MapSet(items, id, "processing", u)
    ELSE Append(items, ChunkItem(id, "processing", u))

\* The transcript once upload u has shown its result: updateTranscriptItem
\* changes the first element with the id and returns when there is none,
\* handleTranscript sets the key.
ShownResult(items, id, status, u) ==
    IF impl = "react" THEN MapSet(items, id, status, u)
    ELSE IF ItemAt(items, id) = 0 THEN items
         ELSE [items EXCEPT ![ItemAt(items, id)] = ChunkItem(id, status, u)]

\* Map.delete of the 3 s timer of handleTranscript.
MapDelete(items, id) == SelectSeq(items, LAMBDA it : it.id # id)

\* The sequence without its i-th element.
WithoutAt(seq, i) ==
    [n \in 1..(Len(seq) - 1) |-> IF n < i THEN seq[n] ELSE seq[n + 1]]

\* The counter left as it is.
Kept(count) == count

\* setProcessingCount(prev => prev + 1) and setProcessingCount(prev => prev - 1).
Incremented(count) == count + 1
Decremented(count) == count - 1

\* An upload: the chunk number it was given, its item id, the recorder whose
\* blob it carries, and whether processChunkAsync has run to its end.
Upload(chunkNum, id, session, done) ==
    [chunkNum |-> chunkNum, id |-> id, session |-> session, done |-> done]

\* The uploads whose request has not settled.
UploadsInFlight == {u \in 1..Len(uploads) : ~uploads[u].done}

\* toggleRecording while not recording: startRecording up to its await of
\* getUserMedia.  isRecording is only set after the await, so a second call
\* finds it still false.
ToggleStart ==
    /\ ~isRecording
    /\ Len(sessions) + micRequests < MaxSessions
    /\ micRequests' = micRequests + 1
    /\ UNCHANGED <<clientVars, serverVars, streamVars, submitVars, harnessVars,
                   projectVars,
                   isRecording, audioStream, mediaRecorder, sessions,
                   chunkCounter, chunkInterval, progressInterval, chunkTimers,
                   progressTimers, uploads, processingCount, processingChunks,
                   chunkItems, removals>>

\* startRecording from the resolved getUserMedia on: the stream is kept, the
\* counter reset, a recording session started (startNewRecordingSession) and
\* both intervals set, their handles overwriting the ones kept.
MicGranted ==
    /\ micRequests > 0
    /\ micRequests' = micRequests - 1
    /\ audioStream' = TRUE
    /\ chunkCounter' = 0
    /\ isRecording' = TRUE
    /\ sessions' = Append(sessions, Session("recording", 0, 0))
    /\ mediaRecorder' = Len(sessions) + 1
    /\ chunkInterval' = Len(sessions) + 1
    /\ chunkTimers' = chunkTimers \cup {Len(sessions) + 1}
    /\ progressInterval' = Len(sessions) + 1
    /\ progressTimers' = progressTimers \cup {Len(sessions) + 1}
    /\ UNCHANGED <<clientVars, serverVars, streamVars, submitVars, harnessVars,
                   projectVars,
                   uploads, processingCount, processingChunks, chunkItems,
                   removals>>

\* startRecording when getUserMedia rejects: the catch block only reports it.
MicDenied ==
    /\ micRequests > 0
    /\ micRequests' = micRequests - 1
    /\ UNCHANGED <<clientVars, serverVars, streamVars, submitVars, harnessVars,
                   projectVars,
                   isRecording, audioStream, mediaRecorder, sessions,
                   chunkCounter, chunkInterval, progressInterval, chunkTimers,
                   progressTimers, uploads, processingCount, processingChunks,
                   chunkItems, removals>>

\* Whether the callback of a chunk interval gets to cycle the session: the
\* vanilla callback and cycleRecordingSession return unless isRecording,
\* both cycleRecordingSession return without a MediaRecorder.
Cycles == mediaRecorder # 0 /\ (impl = "vanilla" => isRecording)

\* Whether startNewRecordingSession creates a recorder: the React hook
\* returns without a stream.
StartsSession == impl = "react" => audioStream

\* The callback of the chunk interval with the handle: cycleRecordingSession
\* stops the current recorder, whose events are dispatched later, and starts
\* the next session at once.
ChunkIntervalFires(h) ==
    /\ h \in chunkTimers
    /\ (Cycles /\ StartsSession) => Len(sessions) + micRequests < MaxSessions
    /\ LET stopped ==
               IF Cycles /\ sessions[mediaRecorder].state = "recording"
               THEN [sessions EXCEPT ![mediaRecorder].state = "stopping"]
               ELSE sessions
       IN  IF Cycles /\ StartsSession
           THEN /\ sessions' = Append(stopped, Session("recording", 0, 0))
                /\ mediaRecorder' = Len(sessions) + 1
           ELSE /\ sessions' = stopped
                /\ mediaRecorder' = mediaRecorder
    /\ UNCHANGED <<clientVars, serverVars, streamVars, submitVars, harnessVars,
                   projectVars,
                   isRecording, micRequests, audioStream, chunkCounter,
                   chunkInterval, progressInterval, chunkTimers,
                   progressTimers, uploads, processingCount, processingChunks,
                   chunkItems, removals>>

\* The recorder whose events are dispatched next: tasks run in the order
\* stop() queued them.
NextStopped ==
    CHOOSE s \in 1..Len(sessions) :
        /\ sessions[s].state = "stopping"
        /\ \A k \in 1..(s - 1) : sessions[k].state # "stopping"

\* The dataavailable and stop events of a stopped recorder, dispatched in
\* one task: ondataavailable pushes a blob that is not empty to audioChunks,
\* onstop numbers the chunk when audioChunks is not empty, passes a blob over
\* the threshold to processChunkAsync and empties audioChunks.
\* processChunkAsync, up to its request, counts the upload and shows the item
\* of the chunk as 'processing'.
RecorderStopped(size) ==
    /\ \E s \in 1..Len(sessions) : sessions[s].state = "stopping"
    /\ LET s == NextStopped
           audioChunks == IF size > 0 THEN <<size>> ELSE <<>>
           chunkNum == chunkCounter + 1
           id == ItemId(chunkNum, Len(sessions))
           u == Len(uploads) + 1
       IN  IF audioChunks = <<>>
           THEN /\ sessions' = [sessions EXCEPT ![s] = Session("inactive", size, 0)]
                /\ UNCHANGED <<chunkCounter, uploads, processingCount,
                               processingChunks, chunkItems>>
           ELSE /\ chunkCounter' = chunkNum
                /\ IF size > MinBlobSize
                   THEN /\ sessions' =
                             [sessions EXCEPT ![s] = Session("inactive", size, 1)]
                        /\ uploads' = Append(uploads, Upload(chunkNum, id, s, FALSE))
                        /\ processingCount' =
                             IF impl = "react" THEN Incremented(processingCount)
                                               ELSE processingCount
                        /\ processingChunks' =
                             IF impl = "react" THEN processingChunks
                                               ELSE processingChunks \cup {id}
                        /\ chunkItems' = ShownProcessing(chunkItems, id, u)
                   ELSE /\ sessions' =
                             [sessions EXCEPT ![s] = Session("inactive", size, 0)]
                        /\ UNCHANGED <<uploads, processingCount,
                                       processingChunks, chunkItems>>
    /\ UNCHANGED <<clientVars, serverVars, streamVars, submitVars, harnessVars,
                   projectVars,
                   isRecording, micRequests, audioStream, mediaRecorder,
                   chunkInterval, progressInterval, chunkTimers,
                   progressTimers, removals>>

\* processChunkAsync from the reply on: the item shows the reply's status
\* when a branch is taken, handleTranscript sets the 3 s removal timer on
\* 'queued', and the finally block takes the upload off the count.
UploadSettles(u, reply) ==
    /\ u \in UploadsInFlight
    /\ LET status == ChunkStatus(reply, "none")
           id == uploads[u].id
       IN  /\ chunkItems' = IF status = "none" THEN chunkItems
                            ELSE ShownResult(chunkItems, id, status, u)
           /\ removals' = IF impl = "react" /\ status = "queued"
                          THEN Append(removals, id) ELSE removals
           /\ processingChunks' =
                IF impl = "react" THEN processingChunks
                                  ELSE processingChunks \ {id}
    /\ uploads' = [uploads EXCEPT ![u].done = TRUE]
    /\ processingCount' = IF impl = "react" THEN Decremented(processingCount)
                                            ELSE processingCount
    /\ UNCHANGED <<clientVars, serverVars, streamVars, submitVars, harnessVars,
                   projectVars,
                   isRecording, micRequests, audioStream, mediaRecorder,
                   sessions, chunkCounter, chunkInterval, progressInterval,
                   chunkTimers, progressTimers>>

\* The 3 s timer of handleTranscript deletes the key it was set for.
RemovalFires(i) ==
    /\ i \in 1..Len(removals)
    /\ chunkItems' = MapDelete(chunkItems, removals[i])
    /\ removals' = WithoutAt(removals, i)
    /\ UNCHANGED <<clientVars, serverVars, streamVars, submitVars, harnessVars,
                   projectVars,
                   isRecording, micRequests, audioStream, mediaRecorder,
                   sessions, chunkCounter, chunkInterval, progressInterval,
                   chunkTimers, progressTimers, uploads, processingCount,
                   processingChunks>>

\* toggleRecording while recording: stopRecording clears the two intervals
\* whose handles are kept, stops the current recorder if it is recording and
\* releases the stream.
ToggleStop ==
    /\ isRecording
    /\ chunkTimers' = chunkTimers \ {chunkInterval}
    /\ chunkInterval' = 0
    /\ progressTimers' = progressTimers \ {progressInterval}
    /\ progressInterval' = 0
    /\ isRecording' = FALSE
    /\ sessions' = IF mediaRecorder # 0
                      /\ sessions[mediaRecorder].state = "recording"
                   THEN [sessions EXCEPT ![mediaRecorder].state = "stopping"]
                   ELSE sessions
    /\ audioStream' = FALSE
    /\ UNCHANGED <<clientVars, serverVars, streamVars, submitVars, harnessVars,
                   projectVars,
                   micRequests, mediaRecorder, chunkCounter, uploads,
                   processingCount, processingChunks, chunkItems, removals>>

(***************************************************************************)
(* The update stream across project switches, reconnects and teardown      *)
(***************************************************************************)

\* EventSources created while the subscriber is followed, the connects still
\* to come from pending loads and timers included; the projects to select.
MaxSources == 3
Projects == 1..2

\* An EventSource for a project, open until close() is called on it.
Source(project, state) == [project |-> project, state |-> state]

\* The EventSources as they are, none closed.
NotClosed(srcs, i) == srcs

\* EventSource.close() on the i-th EventSource; nothing when i is 0 (null).
Closed(srcs, i) ==
    IF i = 0 THEN srcs ELSE [srcs EXCEPT ![i].state = "closed"]

\* The project connectSSE opens its stream for: the React callback closes
\* over the projectName of its render, the vanilla function reads the global
\* when it runs.
StreamProject(closure) == IF impl = "react" THEN closure ELSE projectName

\* Room for one more connect.
MayConnectLater == Len(sources) + Len(reconnects) + Len(loads) < MaxSources

\* connectSSE() of the render with the given project: the EventSource held is
\* closed, a new one is created and held.
connectSSE(closure, srcs) ==
    /\ sources' = Append(Closed(srcs, evtSourceRef),
                         Source(StreamProject(closure), "open"))
    /\ evtSourceRef' = Len(srcs) + 1

\* init() of the vanilla script and the first run of the init effect: the
\* state load is started, the connect follows it.
Startup ==
    /\ sources = <<>> /\ loads = <<>> /\ reconnects = <<>>
    /\ mounted
    /\ loads' = <<projectName>>
    /\ UNCHANGED <<clientVars, serverVars, streamVars, submitVars, harnessVars,
                   recordingVars, projectName, mounted, sources, evtSourceRef,
                   reconnects>>

\* Another project is selected.  React: setProjectName re-runs the init
\* effect, whose cleanup closes the EventSource held and which starts a load
\* with a connect chained.  Vanilla: the change handler sets projectName and
\* calls restartProjectView, which closes the EventSource held and awaits
\* loadInitialState.
SwitchProject(project) ==
    /\ mounted
    /\ project # projectName
    /\ MayConnectLater
    /\ projectName' = project
    /\ sources' = Closed(sources, evtSourceRef)
    /\ loads' = Append(loads, project)
    /\ UNCHANGED <<clientVars, serverVars, streamVars, submitVars, harnessVars,
                   recordingVars, mounted, evtSourceRef, reconnects>>

\* React: markdownContent changes, so handleFileUpdated, connectSSE and with
\* them the init effect change: the cleanup closes the EventSource held and
\* the effect loads and connects again.
EffectReruns ==
    /\ impl = "react"
    /\ mounted
    /\ sources # <<>>
    /\ MayConnectLater
    /\ sources' = Closed(sources, evtSourceRef)
    /\ loads' = Append(loads, projectName)
    /\ UNCHANGED <<clientVars, serverVars, streamVars, submitVars, harnessVars,
                   recordingVars, projectName, mounted, evtSourceRef,
                   reconnects>>

\* The load awaited settles and the connect chained after it runs:
\* loadInitialState().then(() => connectSSE()), `await loadInitialState();
\* connectSSE();`.
LoadSettles(i) ==
    /\ i \in 1..Len(loads)
    /\ connectSSE(loads[i], sources)
    /\ loads' = WithoutAt(loads, i)
    /\ UNCHANGED <<clientVars, serverVars, streamVars, submitVars, harnessVars,
                   recordingVars, projectName, mounted, reconnects>>

\* onerror of an open EventSource: React closes that EventSource, the vanilla
\* script the one held; both set the 3 s timer for connectSSE.
SourceFails(s) ==
    /\ s \in 1..Len(sources)
    /\ sources[s].state = "open"
    /\ MayConnectLater
    /\ sources' = Closed(sources, IF impl = "react" THEN s ELSE evtSourceRef)
    /\ reconnects' = Append(reconnects, sources[s].project)
    /\ UNCHANGED <<clientVars, serverVars, streamVars, submitVars, harnessVars,
                   recordingVars, projectName, mounted, evtSourceRef, loads>>

\* The 3 s timer of onerror fires: connectSSE.
ReconnectFires(i) ==
    /\ i \in 1..Len(reconnects)
    /\ connectSSE(reconnects[i], sources)
    /\ reconnects' = WithoutAt(reconnects, i)
    /\ UNCHANGED <<clientVars, serverVars, streamVars, submitVars, harnessVars,
                   recordingVars, projectName, mounted, loads>>

\* React: the hook is torn down; the cleanup of the init effect closes the
\* EventSource held.
Unmount ==
    /\ impl = "react"
    /\ mounted
    /\ mounted' = FALSE
    /\ sources' = Closed(sources, evtSourceRef)
    /\ UNCHANGED <<clientVars, serverVars, streamVars, submitVars, harnessVars,
                   recordingVars, projectName, evtSourceRef, reconnects, loads>>

\* The pending lists served by a back end at rest: none is open.
NoPending == {<<>>}

ClientNext ==
    \/ \E content \in Docs, section \in SectionInputs, target \in TargetInputs :
          ReceiveFileUpdated(content, section, target)
    \/ \E i \in DueTimers : GlowTimerFires(i)
    \/ \E i \in DueTimers : GapTimerFires(i)
    \/ \E content \in Docs, pending \in NoPending : ReceiveInit(content, pending)
    \/ \E ok \in BOOLEAN, content \in Docs \cup {<<>>}, pending \in NoPending :
          LoadInitialState(ok, content, pending)
    \/ ConnectSSE

ServerNext ==
    \/ \E text \in ChunkTexts, sims \in [1..Len(document) -> Scores],
          newHeading \in Headings, ok \in BOOLEAN :
          ProcessChunk(text, sims, newHeading, ok)
    \/ \E id \in 1..MaxChunks, action \in ResolveActions, ok \in BOOLEAN :
          Resolve(id, action, ok)

vars == <<clientVars, serverVars, streamVars, restVars>>

Init == ClientInit /\ ServerInit

\* The initial state with the React front end as the subscriber.
InitReact == Init /\ impl = "react"

\* The subscriber, beside a back end at rest.
Next == ClientNext

Spec == Init /\ [][Next]_vars

\* The timer steps; a pending timer of the browser eventually fires.
TimerFires ==
    \E i \in DueTimers : GlowTimerFires(i) \/ GapTimerFires(i)

FairSpec == Spec /\ WF_vars(TimerFires)

\* The back end, beside one subscriber that has not connected.
NextServer == ServerNext

ServerSpec == InitReact /\ [][NextServer]_vars

\* The subscriber on the event channel of a back end that commits events.
NextStream ==
    \/ \E content \in Docs, section \in {ab}, wellFormed \in BOOLEAN :
          CommitChange(content, section, wellFormed)
    \/ CommitPending
    \/ \E id \in 1..MaxMessages : CommitResolved(id)
    \/ \E ok \in BOOLEAN : LoadInitialState(ok, served.content, served.pending)
    \/ OpenStream
    \/ OnInit
    \/ OnFileUpdated
    \/ OnPendingUpdate
    \/ OnPendingResolved
    \/ OnUnparseable
    \/ TransportFails
    \/ ReconnectTimerFires
    \/ \E i \in DueTimers : GlowTimerFires(i)
    \/ \E i \in DueTimers : GapTimerFires(i)

StreamSpec == Init /\ [][NextStream]_vars

\* The pending 3 s timer of the browser eventually fires.
FairStreamSpec ==
    /\ StreamSpec
    /\ WF_vars(ReconnectTimerFires)

\* The originator submitting text and audio chunks.
NextSubmit ==
    \/ TextSubmitted
    \/ ChunkRecorded
    \/ \E i \in 1..MaxSubmitted, reply \in Replies : TextSettled(i, reply)
    \/ \E i \in 1..MaxSubmitted, reply \in Replies : ChunkSettled(i, reply)
    \/ \E i \in 1..MaxSubmitted : ItemExpires(i)

SubmitSpec == Init /\ [][NextSubmit]_vars

\* The request of a submitted chunk settles: the fetch promise resolves or
\* rejects, and the rest of the handler runs.
Settles(i) ==
    \E reply \in Replies : TextSettled(i, reply) \/ ChunkSettled(i, reply)

FairSubmitSpec ==
    /\ SubmitSpec
    /\ \A i \in 1..MaxSubmitted : WF_vars(Settles(i))

\* The fields a file_updated event may carry for the changed heading.
HeardSections == SectionInputs
HeardTargets == TargetInputs \cup {<<>>, NoneStr}

\* One file_updated event reaching a subscriber with a document on display.
NextHeading ==
    \/ \E content \in Docs, section \in HeardSections, target \in HeardTargets :
          Hear(content, section, target)
    \/ HandleHeard

HeadingSpec == HeadingInit /\ [][NextHeading]_vars

\* The documents detectNewSection can still be called with: it is called once.
DetectInputs == IF heard.set THEN {} ELSE LineDocs

NextDetect ==
    \E oldContent, newContent \in DetectInputs : Detect(oldContent, newContent)

DetectSpec == Init /\ [][NextDetect]_vars

\* The pending list of a connected subscriber.
NextPending ==
    \/ \E type \in {"pending_update", "pending_resolved"}, id \in PendingIds :
          PendingArrives(type, id)
    \/ OnPendingUpdate
    \/ OnPendingResolved
    \/ \E id \in PendingIds, status \in ResolveReplies : ResolveReplied(id, status)

PendingSpec == PendingInit /\ [][NextPending]_vars

\* The recorder followed through starts, cycles, stops and uploads.
NextRecording ==
    \/ ToggleStart
    \/ MicGranted
    \/ MicDenied
    \/ \E h \in chunkTimers : ChunkIntervalFires(h)
    \/ \E size \in BlobSizes : RecorderStopped(size)
    \/ \E u \in UploadsInFlight, reply \in Replies : UploadSettles(u, reply)
    \/ \E i \in 1..Len(removals) : RemovalFires(i)
    \/ ToggleStop

\* The replay of the events received so far, with a snapshot or a state
\* load applied in between; no further event arrives.
NextStale ==
    \/ \E content \in Docs, pending \in NoPending : ReceiveInit(content, pending)
    \/ \E ok \in BOOLEAN, content \in Docs \cup {<<>>}, pending \in NoPending :
          LoadInitialState(ok, content, pending)
    \/ \E i \in DueTimers : GlowTimerFires(i)
    \/ \E i \in DueTimers : GapTimerFires(i)

StaleSpec == StaleInit /\ [][NextStale]_vars

\* The subscriber's stream through project switches, failures and teardown.
NextProject ==
    \/ Startup
    \/ \E project \in Projects : SwitchProject(project)
    \/ EffectReruns
    \/ \E i \in 1..Len(loads) : LoadSettles(i)
    \/ \E s \in 1..Len(sources) : SourceFails(s)
    \/ \E i \in 1..Len(reconnects) : ReconnectFires(i)
    \/ Unmount

ProjectSpec == Init /\ [][NextProject]_vars

\* The subscriber receiving only events that name no section and no target,
\* so that every heading animated was found by detectNewSection.
NextDiff ==
    \/ ConnectSSE
    \/ \E content \in Docs, pending \in NoPending :
          LoadInitialState(TRUE, content, pending)
    \/ \E content \in Docs : ReceiveFileUpdated(content, NULL, NULL)
    \/ \E i \in DueTimers : GlowTimerFires(i)
    \/ \E i \in DueTimers : GapTimerFires(i)

DiffSpec == Init /\ [][NextDiff]_vars

\* One call of findHeaderElement on each name and document.
FindInputs == IF heard.set THEN {} ELSE HeaderDocs

NextFind ==
    \E sectionName \in HeaderNames, doc \in FindInputs :
        FindHeader(sectionName, doc)

FindSpec == Init /\ [][NextFind]_vars

RecordingSpec == Init /\ [][NextRecording]_vars

\* The browser dispatches the events of a stopped recorder.
FairRecordingSpec ==
    RecordingSpec /\ WF_vars(\E size \in BlobSizes : RecorderStopped(size))

\* The rewrite cycles of chunks that arrive while others are being rewritten.
NextRewriteCycle ==
    \/ \E heading \in Headings, score \in {T_confident} :
          \/ SubmitChunk(Create(heading, score))
          \/ heading \in {document[i].heading : i \in 1..Len(document)}
             /\ SubmitChunk(Update(heading, score))
    \/ \E w \in waiting : BeginRewrite(w)
    \/ \E c \in cycles, ok \in BOOLEAN : FinishRewrite(c, ok)

RewriteCycleSpec == InitReact /\ [][NextRewriteCycle]_vars

\* Section Indexes the classifier is consulted with.
MaxSections == 2
SectionIndexes == UNION {[1..n -> Headings] : n \in 0..MaxSections}

\* The Match Classifier alone, consulted once, on every chunk, Section Index
\* and similarity.
NextClassifier ==
    \E text \in ChunkTexts, headings \in SectionIndexes, newHeading \in Headings :
        \E sims \in [1..Len(headings) -> Scores] :
            ClassifyChunk(text, headings, sims, newHeading)

\* Documents the rewriter is called with: one section per heading of a Section
\* Index, each with the content of an earlier run (chunk 0).
RewriterDocuments ==
    {[i \in 1..Len(headings) |-> [heading |-> headings[i], body |-> <<0, i>>]] :
        headings \in SectionIndexes}

\* The Document Rewriter alone, called once, on every document and decision.
NextRewriter ==
    \E doc \in RewriterDocuments, heading \in Headings, score \in Scores :
        \/ RewriteDocument(doc, Update(heading, score), 1)
        \/ RewriteDocument(doc, Create(heading, score), 1)

RewriterSpec == InitReact /\ [][NextRewriter]_vars

ClassifierSpec == InitReact /\ [][NextClassifier]_vars

(***************************************************************************)
(* Properties of the Client Replay Queue                                   *)
(***************************************************************************)

GlowTimers == {i \in 1..Len(activeTimeouts) : activeTimeouts[i].kind = "glow"}
GapTimers == {i \in 1..Len(activeTimeouts) : activeTimeouts[i].kind = "gap"}

\* The subscriber is in the Animating state.
Animating == GlowTimers # {}

\* The subscriber is Idle and its replay queue has drained.
Drained == ~isProcessingQueue /\ updateQueue = <<>>

\* This step begins the drain of a queued event.
DrainBegins == Len(applied') = Len(applied) + 1

QueuedBodies == [i \in 1..Len(updateQueue) |-> updateQueue[i].newContent]

\* C1: the replay queue never animates two sections at once: at most one
\* animation window is open, and the drain of an event begins only when the
\* animation window of the event drained before it has ended.
C1_OneAnimationAtATime ==
    /\ [](Cardinality(GlowTimers) <= 1)
    /\ [][DrainBegins => ~Animating]_vars

C1_TwoAnimationsInTurn == animations >= 2 /\ Animating

\* C2: events are drained strictly serially in arrival order: the bodies
\* applied so far, followed by the bodies still queued, are the bodies
\* received, and an event that arrives while a drain is in progress is queued
\* behind the others and changes nothing on display.
C2_SerialArrivalOrder ==
    /\ [](received = applied \o QueuedBodies)
    /\ [][(isProcessingQueue /\ Len(received') > Len(received))
            => /\ applied' = applied
               /\ markdownContent' = markdownContent
               /\ Len(updateQueue') = Len(updateQueue) + 1]_vars

C2_WaitsBehindAnimation ==
    /\ Len(applied) >= 2
    /\ applied[1] # applied[2]
    /\ isProcessingQueue
    /\ updateQueue # <<>>

C4_EveryEventDrained ==
    (~Drained) ~> (Drained /\ applied = received)

C4_QueuedEventsDrained ==
    Drained /\ Len(applied) >= 3 /\ activeTimeouts = <<>>

\* The gap timer scheduled by the last finished drain has not fired yet.
GapOfLastFinishPending == lastGap /\ GapTimers # {}

\* This step is the firing of the gap timer the last finished drain scheduled.
FiresLastGap ==
    Len(received') = Len(received) /\ Cardinality(GapTimers) = 1

\* C5: when a drain finishes with more items queued, the next queued event does
\* not begin draining before the 100 ms gap timer scheduled at that finish has
\* fired, also when a new ChangeEvent arrives during the gap.
C5_GapBeforeNextDrain ==
    [][(DrainBegins /\ GapOfLastFinishPending) => FiresLastGap]_vars

\* C6 as stated: in every state where the subscriber is Animating for event e,
\* the document on display is e's new body.
C6_AnimatingShowsEventBody ==
    \A i \in GlowTimers : markdownContent = activeTimeouts[i].update.newContent

\* C6, amended: while the subscriber is Animating for event e, the document on
\* display is e's new body, unless an init snapshot or a state load has
\* replaced the display since the drain of e began.
C6_AnimatingShowsEventBodyUnlessSnapshot ==
    \A i \in GlowTimers :
        lastShown = "event" => markdownContent = activeTimeouts[i].update.newContent

C6_SwappedBeforeHighlight ==
    /\ Animating
    /\ lastShown = "event"
    /\ Len(applied) >= 2
    /\ applied[Len(applied)] # applied[Len(applied) - 1]

(***************************************************************************)
(* Properties of the Match Classifier and the Pending-Decision Store       *)
(***************************************************************************)

\* The classifier has been consulted.
Classified == classified.decision.kind # "none"

\* The similarity of the classified chunk to every section is below T_floor.
AllBelowFloor ==
    \A i \in 1..Len(classified.sims) : classified.sims[i] < T_floor

\* The sections the classified chunk is most similar to.
MostSimilar ==
    {i \in 1..Len(classified.sims) :
        \A j \in 1..Len(classified.sims) : classified.sims[j] <= classified.sims[i]}

\* C7: for every chunk containing a recognized hedge/retraction phrase the
\* Match Classifier returns Uncertain, whatever the similarity scores.
C7_HedgeForcesUncertain ==
    (Classified /\ HasHedge(classified.text))
        => classified.decision.kind = "Uncertain"

C7_HedgedConfidentMatch ==
    /\ Classified
    /\ HasHedge(classified.text)
    /\ \E i \in MostSimilar : classified.sims[i] >= T_confident
    /\ classified.decision.kind = "Uncertain"

\* C8 as stated: for every chunk whose similarity to every existing section is
\* below T_floor the Match Classifier returns Create.
C8_BelowFloorCreates ==
    (Classified /\ AllBelowFloor) => classified.decision.kind = "Create"

\* C8, amended: for every chunk without hedge/retraction language whose
\* similarity to every existing section is below T_floor the Match Classifier
\* returns Create, never Update and never Uncertain.
C8_BelowFloorCreatesUnlessHedge ==
    (Classified /\ ~HasHedge(classified.text) /\ AllBelowFloor)
        => classified.decision.kind = "Create"

C8_UnrelatedChunkCreates ==
    /\ Classified
    /\ ~HasHedge(classified.text)
    /\ Len(classified.sims) = 2
    /\ AllBelowFloor
    /\ classified.decision.kind = "Create"

InDocument(chunk) ==
    \E i \in 1..Len(document) :
        \E k \in 1..Len(document[i].body) : document[i].body[k] = chunk

\* A ChangeEvent for the chunk has been emitted.
HasChangeEvent(chunk) ==
    \E n \in 1..Len(events) :
        events[n].type = "file_updated" /\ events[n].chunk = chunk

\* The chunk's PendingUpdate has been resolved with approve or create_new.
ResolvedToWrite(chunk) ==
    \E n \in 1..Len(events) :
        /\ events[n].type = "pending_resolved"
        /\ events[n].chunk = chunk
        /\ events[n].action \in {"approve", "create_new"}

\* C10: an Uncertain decision never writes the document: while a chunk's
\* PendingUpdate is in the store, and as long as a chunk decided Uncertain has
\* not been resolved with approve or create_new, no rewrite caused by the chunk
\* is applied and no ChangeEvent for it is emitted.
C10_UncertainNeverWrites ==
    /\ \A p \in pendingUpdates :
          ~InDocument(p.chunk) /\ ~HasChangeEvent(p.chunk)
    /\ \A chunk \in 1..Len(decided) :
          (decided[chunk] = "Uncertain" /\ ~ResolvedToWrite(chunk))
              => ~InDocument(chunk) /\ ~HasChangeEvent(chunk)

C10_PendingBesideRewrite ==
    /\ \E p \in pendingUpdates : p.chunk = 1 /\ ~InDocument(1)
    /\ InDocument(2)
    /\ HasChangeEvent(2)

\* The pending id has been handed out and its entry is no longer in the store.
AlreadyResolved(id) ==
    id \in 1..nextId /\ \A p \in pendingUpdates : p.id # id

\* This step is a resolve call (no chunk is processed by it).
ResolveStep == chunkSeq' = chunkSeq

\* The rewrites a chunk has caused: its ChangeEvents, its places in the document.
ChangeEventsOf(chunk) ==
    {n \in 1..Len(events) :
        events[n].type = "file_updated" /\ events[n].chunk = chunk}

PlacesOf(chunk) ==
    UNION {{<<i, k>> : k \in {k \in 1..Len(document[i].body) :
                                 document[i].body[k] = chunk}} :
           i \in 1..Len(document)}

\* C11: resolving a pending id that has already been resolved reports
\* not_found and changes nothing, and over any sequence of resolve calls the
\* document is rewritten at most once per pending id.
C11_ResolveTwiceNotFound ==
    /\ [][(ResolveStep /\ AlreadyResolved(lastResolveId'))
            => /\ lastResolve' = "not_found"
               /\ UNCHANGED <<document, pendingUpdates, events, failed>>]_vars
    /\ [](\A chunk \in 1..chunkSeq :
            Cardinality(ChangeEventsOf(chunk)) <= 1
            /\ Cardinality(PlacesOf(chunk)) <= 1)

C11_NotFoundAfterApprove ==
    /\ lastResolve = "not_found"
    /\ \E n \in 1..Len(events) :
          /\ events[n].type = "pending_resolved"
          /\ events[n].id = lastResolveId
          /\ events[n].action = "approve"
          /\ Cardinality(PlacesOf(events[n].chunk)) = 1

\* The events that report a reject.
RejectEvents ==
    {n \in 1..Len(events) :
        events[n].type = "pending_resolved" /\ events[n].action = "reject"}

\* C12: resolving a PendingUpdate with reject removes the entry, emits only a
\* PendingResolved event and leaves the document as it was, and the rejected
\* chunk's content is never applied afterwards.
C12_RejectLeavesDocument ==
    /\ [][(ResolveStep /\ lastResolve' = "rejected")
            => /\ document' = document
               /\ \A p \in pendingUpdates' : p.id # lastResolveId'
               /\ Len(events') = Len(events) + 1
               /\ Len(events') \in RejectEvents'
               /\ events'[Len(events')].id = lastResolveId']_vars
    /\ [](\A n \in RejectEvents :
            ~InDocument(events[n].chunk) /\ ~HasChangeEvent(events[n].chunk))

C12_RewriteAfterReject ==
    /\ \E n \in RejectEvents : n < Len(events) /\ events[n].chunk = 1
    /\ events[Len(events)].type = "file_updated"
    /\ InDocument(2)
    /\ ~InDocument(1)

\* The rewriter has been called.
Rewritten == rewritten.decision.kind # "none"

\* C13: for every document D and Update decision on heading H, the output of
\* the Document Rewriter has every section of D other than H at its place,
\* unchanged, and no section more than D.
C13_UpdateKeepsOtherSections ==
    (Rewritten /\ rewritten.decision.kind = "Update"
     /\ \E i \in 1..Len(rewritten.doc) :
           rewritten.doc[i].heading = rewritten.decision.heading)
        => /\ Len(rewritten.out) = Len(rewritten.doc)
           /\ \A i \in 1..Len(rewritten.doc) :
                 rewritten.doc[i].heading # rewritten.decision.heading
                     => rewritten.out[i] = rewritten.doc[i]

C13_UpdateBeforeOtherSection ==
    /\ Rewritten
    /\ rewritten.decision.kind = "Update"
    /\ Len(rewritten.doc) = 2
    /\ rewritten.doc[1].heading = rewritten.decision.heading
    /\ rewritten.doc[2].heading # rewritten.decision.heading
    /\ rewritten.out[1] # rewritten.doc[1]
    /\ rewritten.out[2] = rewritten.doc[2]

\* The chunks the classifier handed to the Document Rewriter at once.
DirectChunks == {chunk \in 1..chunkSeq : decided[chunk] \in {"Update", "Create"}}

\* C14: rewrites are all-or-nothing: a step that reports a chunk as an error
\* leaves the document unchanged and emits no event (a failed resolve replies
\* error and keeps the entry), and a chunk handed to the rewriter is either in
\* the document with its ChangeEvent or reported as an error with neither.
C14_RewriteAllOrNothing ==
    /\ [][failed' # failed
            => /\ UNCHANGED <<document, events, pendingUpdates>>
               /\ (ResolveStep => lastResolve' = "error")]_vars
    /\ [](\A chunk \in DirectChunks :
            \/ InDocument(chunk) /\ HasChangeEvent(chunk) /\ chunk \notin failed
            \/ ~InDocument(chunk) /\ ~HasChangeEvent(chunk) /\ chunk \in failed)

C14_FailedThenWritten ==
    /\ DirectChunks = {1, 2}
    /\ failed = {1}
    /\ ~InDocument(1)
    /\ InDocument(2)
    /\ Len(events) = 1

HandledEvents == {i \in 1..Len(handled) : handled[i].seq > 0}

\* The messages queued for the subscriber that carry a committed event.
QueuedEvents == {j \in 1..Len(stream) : stream[j].seq > 0}

\* C16: the subscriber is sent the channel's events in the order they were
\* committed and handles them in the order received: the events it has handled
\* and the events queued for it are in commit order with no event twice, and
\* the channel holds at most one ChangeEvent per rewrite.
C16_EventsInCommitOrder ==
    /\ \A i, j \in HandledEvents : i < j => handled[i].seq < handled[j].seq
    /\ \A i, j \in QueuedEvents : i < j => stream[i].seq < stream[j].seq
    /\ \A i \in HandledEvents, j \in QueuedEvents : handled[i].seq < stream[j].seq
    /\ \A n \in 1..Len(events) : events[n].seq = n
    /\ \A chunk \in 1..chunkSeq : Cardinality(ChangeEventsOf(chunk)) <= 1

C16_TwoEventsHandled ==
    /\ Cardinality(HandledEvents) = 2
    /\ \E i \in HandledEvents : handled[i].type = "file_updated"
    /\ \E i \in HandledEvents : handled[i].type = "pending_update"
    /\ Len(received) = 1 /\ pendingList # <<>>

\* The last message handled.
LastHandled == handled[Len(handled)]

\* The step is onmessage handling an init snapshot.
InitStep ==
    /\ Len(handled') = Len(handled) + 1
    /\ handled'[Len(handled')].type = "init"

\* The first message handled on each connection is its init snapshot.
InitHandledFirst ==
    \A i \in 1..Len(handled) :
        (\A j \in 1..(i - 1) : handled[j].connection # handled[i].connection)
            => handled[i].type = "init" /\ handled[i].wellFormed

\* C17: on every connection the init snapshot is the first message handled,
\* and handling it sets the document on display, the baseline and the pending
\* list to the snapshot's document and pending list, whatever they held.
C17_InitFirstAndReplaces ==
    /\ [](InitHandledFirst)
    /\ [][InitStep => /\ markdownContent' = Head(stream).content
                      /\ displayedContent' = Head(stream).content
                      /\ pendingList' = Head(stream).pending]_vars

C17_InitReplacesPendingList ==
    /\ handled # <<>>
    /\ LastHandled.type = "init" /\ LastHandled.connection = 2
    /\ \E i \in 1..Len(handled) :
          handled[i].type = "pending_update" /\ handled[i].connection = 1
    /\ pendingList = <<1>>
    /\ markdownContent = served.content /\ displayedContent = served.content

\* The step is onmessage called with a message JSON.parse rejects.
UnparseableStep ==
    /\ Len(handled') = Len(handled) + 1
    /\ ~handled'[Len(handled')].wellFormed

\* C18: a message that is not parseable JSON is dropped: the document on
\* display, the baseline, the pending list and the replay queue are unchanged,
\* the stream stays open and the messages behind it stay queued for onmessage.
C18_UnparseableDropped ==
    [][UnparseableStep => /\ markdownContent' = markdownContent
                          /\ displayedContent' = displayedContent
                          /\ pendingList' = pendingList
                          /\ updateQueue' = updateQueue
                          /\ received' = received
                          /\ evtSource' = "open"
                          /\ stream' = Tail(stream)]_vars

C18_HandledAfterUnparseable ==
    \E i, j \in 1..Len(handled) :
        /\ i < j
        /\ handled[i].connection = handled[j].connection
        /\ ~handled[i].wellFormed
        /\ handled[j].wellFormed /\ handled[j].type = "file_updated"
        /\ Len(received) = 1

\* No event committed while no stream was open is queued for the subscriber
\* or handled by it as an event.
MissedNeverReplayed ==
    /\ \A i \in HandledEvents : handled[i].seq \notin missed
    /\ \A j \in QueuedEvents : stream[j].seq \notin missed

\* C19: a transport failure closes the failed stream, drops what was queued on
\* it and starts the 3 s timer, a closed stream is eventually followed by an open one, the new
\* connection starts from the init snapshot of what the back end serves then,
\* and events committed in between are never replayed to the subscriber.
C19_ReconnectsFromSnapshot ==
    /\ [](MissedNeverReplayed)
    /\ [][evtSource = "open" /\ evtSource' # "open"
            => evtSource' = "closed" /\ stream' = <<>> /\ reconnectTimer']_vars
    /\ [][evtSource = "closed" /\ evtSource' = "open"
            => stream' = <<InitSnapshot(served)>>]_vars
    /\ (evtSource = "closed") ~> (evtSource = "open")

C19_MissedEventInSnapshot ==
    /\ evtSource = "open" /\ connections = 2
    /\ handled # <<>>
    /\ LastHandled.type = "init" /\ LastHandled.connection = 2
    /\ received = <<>>
    /\ \E n \in missed : /\ events[n].type = "file_updated"
                         /\ events[n].wellFormed
                         /\ markdownContent = events[n].content

\* The items whose request has settled.
Settled == {i \in 1..Len(processingItems) : processingItems[i].reply # NoReply}

\* C20: a chunk whose submission failed, by a reply with status error or by a
\* failed request, is shown with the error status, text and audio alike.
C20_FailedShownAsError ==
    \A i \in Settled :
        Failed(processingItems[i].reply) => processingItems[i].status = "error"

\* The terminal status that matches a reply.
Terminal(reply) ==
    IF reply.status = "thrown" THEN "error" ELSE reply.status

\* C21: whatever the submit-chunk endpoint replies, and when the request
\* fails, the item of a submitted chunk eventually leaves 'processing' and
\* shows the terminal status matching the reply.
C21_ItemReachesTerminalStatus ==
    \A i \in 1..MaxSubmitted :
        (Len(processingItems) >= i)
            ~> (/\ Len(processingItems) >= i
                /\ processingItems[i].reply # NoReply
                /\ processingItems[i].status = Terminal(processingItems[i].reply))

\* The event heard has been handled.
HeardHandled == heard.set /\ received # <<>>

\* A value that names a heading: not missing, not empty, not 'None'.
Named(s) == s # NULL /\ s # <<>> /\ s # NoneStr

\* The heading the precedence of C22 gives the event heard.
HeardHeading ==
    IF Named(heard.section) THEN heard.section
    ELSE IF Named(heard.target) THEN heard.target
    ELSE detectNewSection(heard.old, heard.content)

\* C22: the heading of a file_updated event is its section, else its
\* change_info.target_section, else the heading found by diffing the baseline
\* with the new content, a missing, empty or 'None' value counting as unknown;
\* the event is queued with that heading, and an event drained at once enters
\* the animation only with a heading, which is the one animated.
C22_HeadingByPrecedence ==
    HeardHandled =>
        IF heard.busy
        THEN /\ Len(updateQueue) = 1
             /\ updateQueue[1].sectionName = HeardHeading
        ELSE /\ updateQueue = <<>>
             /\ isProcessingQueue =>
                  /\ HeardHeading # NULL /\ HeardHeading # <<>>
                  /\ impl = "react" => animatingSection = HeardHeading
                  /\ impl = "vanilla" =>
                       glowHeader = findHeaderElement(HeardHeading, heard.content)

C22_NoneThenTarget ==
    /\ HeardHandled
    /\ heard.section = NoneStr /\ heard.target = b
    /\ ~heard.busy
    /\ isProcessingQueue
    /\ impl = "react" /\ animatingSection = b

\* The headings of the new document heard that the old one lacks, by their
\* place among the headings of the new document.
FreshHeadings ==
    {i \in 1..Len(Headers(heard.content)) :
        ~InSeq(Headers(heard.content)[i], Headers(heard.old))}

\* C23: detectNewSection(old, new) is the first heading of new, in the order
\* of new, that old lacks, and null when old has every heading of new, so
\* detectNewSection(d, d) is null.
C23_FirstHeadingAbsentFromOld ==
    heard.set =>
        /\ FreshHeadings = {} => heard.detected = NULL
        /\ \A i \in FreshHeadings :
              (\A j \in FreshHeadings : i <= j)
                 => heard.detected = Headers(heard.content)[i]
        /\ heard.old = heard.content => heard.detected = NULL

C23_FirstOfTwoNewHeadings ==
    /\ heard.set
    /\ heard.old = <<H(2, b)>>
    /\ heard.content = <<H(1, ab), H(3, <<"b", " ">>)>>
    /\ heard.detected = ab

\* The step is onmessage handling a message of the given type.
HandlesStep(type) ==
    /\ Len(handled') = Len(handled) + 1
    /\ handled'[Len(handled')].type = type
    /\ handled'[Len(handled')].wellFormed

\* The step leaves the document on display and the replay queue alone.
DisplayUntouched ==
    /\ markdownContent' = markdownContent
    /\ displayedContent' = displayedContent
    /\ updateQueue' = updateQueue
    /\ activeTimeouts' = activeTimeouts

\* The list keeps, in order, exactly its entries with another id.
KeepsOthers(before, after, id) ==
    /\ \A n \in 1..Len(after) : after[n] # id
    /\ \E keep \in SUBSET (1..Len(before)) :
          /\ keep = {n \in 1..Len(before) : before[n] # id}
          /\ Len(after) = Cardinality(keep)
          /\ \A n \in 1..Len(after) :
                after[n] = before[CHOOSE k \in keep :
                                    Cardinality({j \in keep : j <= k}) = n]

\* C24: pending_update appends the received entry to the pending list,
\* pending_resolved(id) removes the entries with that id and keeps the others
\* in order, leaving the list as it is when none has the id, and neither
\* touches the document on display or the replay queue.
C24_PendingEventsChangeOnlyList ==
    /\ [][HandlesStep("pending_update")
            => /\ pendingList' = pendingList \o <<Head(stream).id>>
               /\ DisplayUntouched]_vars
    /\ [][HandlesStep("pending_resolved")
            => /\ KeepsOthers(pendingList, pendingList', Head(stream).id)
               /\ ~InSeq(Head(stream).id, pendingList)
                     => pendingList' = pendingList
               /\ DisplayUntouched]_vars

C24_ResolvedOneOfTwo ==
    /\ Len(handled) = 3
    /\ handled[1].type = "pending_update" /\ handled[2].type = "pending_update"
    /\ handled[3].type = "pending_resolved"
    /\ pendingList = <<2>>

\* The step is the handler of a resolve reply.
ResolveReplyStep == heard' # heard

\* C25: after a resolve request the entry leaves the local pending list only
\* on a reply with status success or rejected; on not_found or a failed
\* request the list is unchanged.
C25_RemovedOnlyWhenResolved ==
    [][ResolveReplyStep
         => pendingList' = IF heard'.status \in {"success", "rejected"}
                           THEN WithoutId(pendingList, heard'.id)
                           ELSE pendingList]_vars

\* The step is a chunk interval cycling the session of a running recording.
CycleStep ==
    /\ isRecording /\ isRecording'
    /\ mediaRecorder # 0
    /\ sessions[mediaRecorder].state = "recording"
    /\ sessions'[mediaRecorder].state = "stopping"

\* The step is the end of processChunkAsync for upload u.
SettlesStep(u) == ~uploads[u].done /\ uploads'[u].done

\* The step leaves the items with another id where and as they are.
OtherItemsKept(id) ==
    \A n \in 1..Len(chunkItems) :
        chunkItems[n].id # id
            => \E k \in 1..Len(chunkItems') : chunkItems'[k] = chunkItems[n]

\* C26: a cycle starts the next recording session in the same step, whatever
\* uploads are in flight, and an upload that completes, in whatever order,
\* changes only the item of its own chunk: the item it announced the chunk
\* with.
C26_UploadsUpdateOwnItem ==
    /\ [][CycleStep
            => /\ Len(sessions') = Len(sessions) + 1
               /\ mediaRecorder' = Len(sessions')
               /\ sessions'[mediaRecorder'].state = "recording"
               /\ uploads' = uploads]_vars
    /\ [][\A u \in 1..Len(uploads) :
            SettlesStep(u)
               => /\ OtherItemsKept(uploads[u].id)
                  /\ chunkItems' # chunkItems
                       => /\ ItemAt(chunkItems, uploads[u].id) # 0
                          /\ chunkItems[ItemAt(chunkItems, uploads[u].id)].by = u]_vars

\* The in-flight indicator shown.
Processing ==
    IF impl = "react" THEN processingCount ELSE Cardinality(processingChunks)

\* C27: the processing count is the number of uploads started and not yet
\* completed, so it is never negative and is zero once every upload has
\* completed, whatever the reply and when the request failed.
C27_ProcessingCountExact ==
    /\ Processing = Cardinality(UploadsInFlight)
    /\ processingCount >= 0
    /\ UploadsInFlight = {} => Processing = 0

C27_CountBackToZero ==
    /\ Len(uploads) = 2
    /\ UploadsInFlight = {}
    /\ Processing = 0
    /\ \E n \in 1..Len(chunkItems) : chunkItems[n].status = "error"
    /\ \E n \in 1..Len(chunkItems) : chunkItems[n].status = "processing"

\* The step is stopRecording.
StopStep == isRecording /\ ~isRecording'

\* C28: stopRecording leaves no interval timer set, no recording session is
\* started while the recorder is stopped except by startRecording, and the
\* session in progress is stopped, its blob being passed to processChunkAsync
\* once when it is over the threshold and never otherwise.
C28_StopEndsCycle ==
    /\ [][StopStep => chunkTimers' = {} /\ progressTimers' = {}]_vars
    /\ [][(~isRecording /\ Len(sessions') > Len(sessions))
            => micRequests' < micRequests]_vars
    /\ [][(/\ StopStep
            /\ mediaRecorder # 0
            /\ sessions[mediaRecorder].state = "recording")
              => sessions'[mediaRecorder].state = "stopping"]_vars
    /\ [](\A s \in 1..Len(sessions) :
            /\ Cardinality({u \in 1..Len(uploads) : uploads[u].session = s})
                  = sessions[s].handed
            /\ sessions[s].state = "inactive"
                  => sessions[s].handed
                        = IF sessions[s].size > MinBlobSize THEN 1 ELSE 0)
    /\ \A s \in 1..MaxSessions :
          (Len(sessions) >= s /\ sessions[s].state = "stopping")
             ~> (Len(sessions) >= s /\ sessions[s].state = "inactive")

\* The rendered headers of the document searched and the name looked up, as
\* they are compared: in lower case and trimmed.
SearchedHeaders ==
    [i \in 1..Len(Headers(heard.content)) |->
        trim(toLowerCase(Headers(heard.content)[i]))]

SearchedName == trim(toLowerCase(heard.name))

\* The rank of header i: 3 exact, 2 one begins with the other, 1 one contains
\* the other, 0 no match.
Rank(i) ==
    LET text == SearchedHeaders[i]
    IN  IF text = SearchedName THEN 3
        ELSE IF startsWith(text, SearchedName) \/ startsWith(SearchedName, text)
             THEN 2
        ELSE IF includes(text, SearchedName) \/ includes(SearchedName, text)
             THEN 1
        ELSE 0

\* C29: findHeaderElement(name) returns the rendered header of the highest
\* rank, exact above prefix above substring, the first in document order
\* among those of that rank, and null when no header matches or the name is
\* null or empty.
C29_BestRankedFirstHeader ==
    heard.set =>
        IF Falsy(heard.name) THEN heard.found = 0
        ELSE LET matching == {i \in 1..Len(SearchedHeaders) : Rank(i) > 0}
             IN  IF matching = {} THEN heard.found = 0
                 ELSE /\ heard.found \in matching
                      /\ \A j \in matching :
                            /\ Rank(j) <= Rank(heard.found)
                            /\ Rank(j) = Rank(heard.found) => heard.found <= j

C29_PrefixTieBeforeSubstring ==
    /\ heard.set
    /\ heard.name = <<"A", "b", " ">>
    /\ heard.content = <<H(2, zab), H(3, abz)>>
    /\ heard.found = 2

C29_FirstOfEqualRank ==
    /\ heard.set
    /\ heard.name = <<"a">>
    /\ heard.content = <<H(3, abz), H(1, ab)>>
    /\ heard.found = 1

\* The header the safety net of C30 finds for the event heard: the first
\* heading of the new content that the content displayed before lacks.
DetectedHeader ==
    findHeaderElement(detectNewSection(heard.old, heard.content), heard.content)

\* C30: when the drain of the vanilla script animates an update whose
\* section name matches no rendered header, the header animated is that of
\* the first heading of the new content absent from the content displayed
\* before, and the drain completes without an animation only when there is
\* no such heading.
C30_SafetyNetAnimatesDetected ==
    (/\ HeardHandled
     /\ impl = "vanilla"
     /\ ~heard.busy
     /\ ~Falsy(HeardHeading)
     /\ findHeaderElement(HeardHeading, heard.content) = 0)
        => /\ animations = 1 <=> DetectedHeader # 0
           /\ isProcessingQueue => glowHeader = DetectedHeader

\* The rendered headers whose section carries the glow.
Emphasized ==
    IF impl = "react" THEN GlowingHeaders(animatingSection, markdownContent)
    ELSE {glowHeader} \ {0}

\* The heading being animated.
AnimatedHeading ==
    IF impl = "react" THEN animatingSection
    ELSE activeTimeouts[CHOOSE i \in GlowTimers : TRUE].update.sectionName

\* C31: during an animation at most one section is emphasized, the one the
\* animated heading names best; a header that only shares a prefix or a
\* substring with it is not emphasized beside it.
C31_OneSectionEmphasized ==
    Animating =>
        /\ Cardinality(Emphasized) <= 1
        /\ Emphasized \subseteq {findHeaderElement(AnimatedHeading, markdownContent)}

\* C32: once a snapshot or a loaded state has been applied, no event received
\* before it is put on display by a drain, and the baseline is not set to
\* the body of such an event.  (In StaleSpec every event was received before
\* the snapshot.)
C32_NoRegressionAfterSnapshot ==
    /\ [][snapshots >= 1 => ~DrainBegins]_vars
    /\ [][(snapshots >= 1 /\ displayedContent' # displayedContent)
            => displayedContent' = markdownContent']_vars

\* The EventSources that are open.
OpenSources == {s \in 1..Len(sources) : sources[s].state = "open"}

\* C33: every open stream is the stream of the project selected, whatever
\* reconnect timers and chained connects were pending when the project was
\* selected, and no stream is open once the subscriber has been torn down.
C33_StreamOfSelectedProject ==
    \A s \in OpenSources : sources[s].project = projectName /\ mounted

\* C38: at most one EventSource is open at any time, and it is the one held:
\* every connect, from the start, a reconnect timer, a project switch or an
\* effect re-run, closes the one held before it opens another.
C38_AtMostOneOpenStream ==
    /\ Cardinality(OpenSources) <= 1
    /\ OpenSources \subseteq {evtSourceRef}

C38_ReconnectedAfterSwitch ==
    /\ Len(sources) = 3
    /\ OpenSources = {3}
    /\ projectName = 2
    /\ reconnects = <<>> /\ loads = <<>>

\* C34: no lost wake-up: whenever events wait in the replay queue and no
\* drain is in progress, a 100 ms timer that calls processNextUpdate is
\* pending.
C34_NoLostWakeUp ==
    (updateQueue # <<>> /\ ~isProcessingQueue) => GapTimers # {}

\* Two events wait after a finished drain, with the timer that will drain
\* them.
C34_WaitingWithTimer ==
    /\ Len(updateQueue) >= 2
    /\ ~isProcessingQueue
    /\ GapTimers # {}
    /\ Len(applied) >= 1

\* A drain enters the animation: the update drained is the one its 500 ms
\* timer carries.
AnimationBegins == animations' = animations + 1
AnimatedUpdate == activeTimeouts'[Len(activeTimeouts')].update

\* C35: the heading animated for an event whose heading was found by diffing
\* is a heading of that event's body and is no heading of the document on
\* display just before the event is drained, also for an event that waited
\* in the queue.  (In DiffSpec every heading is found by diffing.)
C35_InferredHeadingIsNew ==
    [][AnimationBegins =>
          /\ InSeq(AnimatedUpdate.sectionName, Headers(AnimatedUpdate.newContent))
          /\ ~InSeq(AnimatedUpdate.sectionName, Headers(markdownContent))]_vars

\* C36: whenever no drain is in progress and the replay queue is empty, the
\* "last displayed" baseline is the document on display: after a snapshot,
\* after a state load that succeeded or failed, and after every drain.
C36_BaselineIsDisplayed ==
    (Drained /\ lastShown # "none") => displayedContent = markdownContent

\* The event heard, as handleFileUpdated queues it.
HeardUpdate == [newContent |-> heard.content, sectionName |-> HeardHeading]

\* The headings front end i animates for one update drained at once.
AnimatedBy(i, update) ==
    IF AnimatesIn(i, update) THEN <<update.sectionName>> ELSE <<>>

\* C37: the two copies of the replay queue agree: an idle subscriber showing
\* a document that receives one file_updated event puts the same documents
\* on display and animates the same headings, whichever front end it runs.
C37_CopiesAgree ==
    (HeardHandled /\ ~heard.busy) =>
        \A i \in Impls :
            /\ applied = <<heard.content>>
            /\ animations = Len(AnimatedBy(i, HeardUpdate))

\* C39: at most one recording session and one chunk interval are live, and
\* they are the ones stopRecording reaches: every interval timer set is the
\* one whose handle is kept, and every MediaRecorder in the recording state
\* is the one kept, also when startRecording ran again while an earlier call
\* awaited the microphone.
C39_LiveIsReferenced ==
    /\ chunkTimers \subseteq {chunkInterval}
    /\ \A s \in 1..Len(sessions) :
          sessions[s].state = "recording" => s = mediaRecorder

====
